---------------------------- MODULE Spec2Model ----------------------------
(***************************************************************************)
(* Framing layer of simplest_mediadata_raw.cpp: the H.264 Annex-B NAL      *)
(* reader (GetAnnexbNALU / simplest_h264_parser), the AAC ADTS frame       *)
(* reader (getADTSframe / simplest_aac_parser) and the FLV demuxer         *)
(* (simplest_flv_parser).                                                  *)
(*                                                                         *)
(* A FILE* is a record [file, pos, eof]: the file, the read position and   *)
(* the end-of-file indicator.  The indicator is set by a read that comes   *)
(* up short (fread returning fewer items than asked, fgetc returning EOF)  *)
(* and cleared by fseek.  A file is written [head, fill, tail]: the bytes  *)
(* head, then fill times the byte 0x67, then the bytes tail; FileData gives *)
(* its byte sequence.  C arrays are 0-based; sequences are 1-based, so     *)
(* C's a[k] is a[k+1] here.  A heap array is written as the sequence of    *)
(* its bytes up to the last one ever stored.                               *)
(*                                                                         *)
(* simplest_aac_parser reads into a buffer of 1024*1024 bytes and asks     *)
(* fread for 1024*1024-offset bytes.  bufsize stands for that number: it   *)
(* is drawn from the program's value and from small values, so that the    *)
(* reads of a short stream also end inside a frame.                        *)
(***************************************************************************)
EXTENDS Integers, Sequences, FiniteSets, TLC

VARIABLES
    h264bitstream,  \* the FILE* of the H.264 stream: [file, pos, eof]
    n,              \* the NALU_t the driver allocates
    info2, info3,   \* file-scope statics of the H.264 reader
    data_offset,    \* driver local: running offset printed as POS
    nal_num,        \* driver local: running record number
    pos,            \* GetAnnexbNALU local pos when the last call returned
    hpc,            \* driver position: "loop", "done", "ub", "idle"
    units,          \* the records the driver printed, in order
    ifile,          \* the FILE* of the AAC stream
    bufsize,        \* size of aacbuffer and of the driver's read request
    aacbuffer,      \* driver: the read buffer
    aacframe,       \* driver: the frame buffer getADTSframe copies into
    size,           \* driver local size, written through int* data_size
    data_size,      \* driver local: bytes left in the scan window
    offset,         \* driver local: where the next fread stores
    cnt,            \* driver local: running frame number
    input_data,     \* driver local: the read pointer, as an index of aacbuffer
    apc,            \* driver position: "outer", "inner", "done", "ub", "idle"
    frames,         \* the rows the driver printed, with the frame bytes
    lastcall,       \* history: the last getADTSframe call and its effect
    brk,            \* history: how the inner loop was last left
    rd,             \* history: the last fread and the window it left
    ifh,            \* the FILE* of the FLV stream
    flv,            \* FLV_HEADER flv, as the bytes of the struct
    tagheader,      \* TAG_HEADER tagheader, as the bytes of the struct
    vfh,            \* video output: [open, data, pos]
    afh,            \* audio output: [open, data]
    previousVedioTagsize,
    fpc,            \* demuxer position: "start", "loop", "closing", "done", "idle"
    tags,           \* the tag rows the demuxer printed, with what each
                    \* iteration of the tag loop did
    recvData,       \* char recvData[10000], as the bytes written so far
    pktcnt,         \* the local cnt of simplest_udp_parser
    fp1,            \* the dump file: [data, overrun]
    upc,            \* extractor position: "start", "listening", "failed",
                    \* "crashed", "idle"
    pkts,           \* the [RTP Pkt] rows printed, with what was done for
                    \* each datagram
    lock_,          \* dispatch_queue::lock_: [locked, owner]
    q_,             \* dispatch_queue::q_, the operations queued, front first
    quit_,          \* dispatch_queue::quit_
    threads_,       \* dispatch_queue::threads_: the position of each worker
                    \* in dispatch_thread_handler
    op,             \* the local op of each worker (0: none)
    mpc,            \* position of the thread that owns the queue:
                    \* [at, i, cnt]
    popped,         \* history: the operations moved out of the queue, in
                    \* that order
    runs,           \* history: for each operation how often op() was
                    \* entered and returned
    woke            \* history: the last operation whose notify_one
                    \* unblocked a worker, and how many workers notify_all
                    \* unblocked

hvars == <<h264bitstream, n, info2, info3, data_offset, nal_num, pos, hpc, units>>

avars == <<ifile, bufsize, aacbuffer, aacframe, size, data_size, offset, cnt,
           input_data, apc, frames, lastcall, brk, rd>>

fvars == <<ifh, flv, tagheader, vfh, afh, previousVedioTagsize, fpc, tags>>

uvars == <<recvData, pktcnt, fp1, upc, pkts>>

dvars == <<lock_, q_, quit_, threads_, op, mpc, popped, runs, woke>>

vars == <<hvars, avars, fvars, uvars, dvars>>

-----------------------------------------------------------------------------
(* Bytes and bit operations                                                *)

Byte == 0..255

RECURSIVE BitAnd(_, _)
BitAnd(a, b) ==
    IF a = 0 \/ b = 0 THEN 0
    ELSE (a % 2) * (b % 2) + 2 * BitAnd(a \div 2, b \div 2)

RECURSIVE Pow2(_)
Pow2(k) == IF k = 0 THEN 1 ELSE 2 * Pow2(k - 1)

Shr(a, k) == a \div Pow2(k)

Shl(a, k) == a * Pow2(k)

Min(S) == CHOOSE x \in S : \A y \in S : x <= y

RECURSIVE Flatten(_)
Flatten(ss) == IF ss = <<>> THEN <<>> ELSE Head(ss) \o Flatten(Tail(ss))

\* the byte sequence of a file
FileData(file) ==
    file.head \o [i \in 1..file.fill |-> 103] \o file.tail

FileOf(bytes) == [head |-> bytes, fill |-> 0, tail |-> <<>>]

\* memcpy(dst, src, len) into an array whose untouched tail stays as it was;
\* src holds exactly the len bytes copied.
Memcpy(dst, src) == src \o SubSeq(dst, Len(src) + 1, Len(dst))

-----------------------------------------------------------------------------
(* H.264: GetAnnexbNALU                                                    *)

buffersize == 100000

\* Buf[k], Buf[k+1], Buf[k+2] against 00 00 01
FindStartCode2(Buf, k) ==
    IF Buf[k + 1] # 0 \/ Buf[k + 2] # 0 \/ Buf[k + 3] # 1 THEN 0 ELSE 1

\* Buf[k] .. Buf[k+3] against 00 00 00 01
FindStartCode3(Buf, k) ==
    IF Buf[k + 1] # 0 \/ Buf[k + 2] # 0 \/ Buf[k + 3] # 0 \/ Buf[k + 4] # 1
    THEN 0 ELSE 1

\* rewind = (info3 == 1)? -4 : -3
RewindAlways3(i3) == -3

\* a seek back over the unit as well as the start code that follows it
RewindOverUnit(i3) == IF i3 = 1 THEN -7 ELSE -6

Rewind(i3) == IF i3 = 1 THEN -4 ELSE -3

\* nalu->len at end of file: (pos-1)-nalu->startcodeprefix_len
EofLenNoSentinel(p, prefix) == p - prefix

EofLen(p, prefix) == (p - 1) - prefix

\* nalu->len when the next start code was found
FoundLen(p, rewind, prefix) == (p + rewind) - prefix

\* The three header fields taken from nalu->buf[0].  nalu->buf is a char
\* array; the masks are below 256, so the sign extension of a char above
\* 0x7f does not change the results.
ForbiddenBit(b) == BitAnd(b, 128)

NalReferenceIdc(b) == BitAnd(b, 96)

NalUnitType(b) == BitAnd(b, 31)

\* nalu->buf[0]: the array is calloc'ed, so a byte never written is 0
Buf0(buf) == IF Len(buf) = 0 THEN 0 ELSE buf[1]

SetHeader(nalu, len, payload) ==
    LET newbuf == Memcpy(nalu.buf, payload)
    IN  [nalu EXCEPT !.len = len,
                     !.buf = newbuf,
                     !.forbidden_bit = ForbiddenBit(Buf0(newbuf)),
                     !.nal_reference_idc = NalReferenceIdc(Buf0(newbuf)),
                     !.nal_unit_type = NalUnitType(Buf0(newbuf))]

\* One call of GetAnnexbNALU on file f with the statics i2, i3.  The result
\* holds the return value, the file, *nalu, the statics, the final value of
\* the local pos and whether a byte was stored at or past Buf[max_size].
GetAnnexbNALU(f, nalu, i2, i3) ==
    LET data  == FileData(f.file)
        avail == Len(data) - f.pos
        nalu3 == [nalu EXCEPT !.startcodeprefix_len = 3]
        \* the bytes the successive reads store into Buf; the last one is the
        \* EOF that fgetc returns at end of file, stored as an unsigned char
        Buf   == SubSeq(data, f.pos + 1, Len(data)) \o <<255>>
        res(ret, ff, nn, a2, a3, p) ==
            [ret |-> ret, f |-> ff, nalu |-> nn, info2 |-> a2, info3 |-> a3,
             pos |-> p, overflow |-> p > nalu.max_size]
    IN
    IF avail < 3
    THEN \* 3 != fread(Buf,1,3,h264bitstream)
         res(0, [f EXCEPT !.pos = Len(data), !.eof = TRUE], nalu3, i2, i3, 0)
    ELSE
    LET a2 == FindStartCode2(Buf, 0) IN
    IF a2 # 1 /\ avail < 4
    THEN \* 1 != fread(Buf+3,1,1,h264bitstream)
         res(0, [f EXCEPT !.pos = Len(data), !.eof = TRUE], nalu3, a2, i3, 0)
    ELSE IF a2 # 1 /\ FindStartCode3(Buf, 0) # 1
    THEN res(-1, [f EXCEPT !.pos = f.pos + 4], nalu3, a2, 0, 0)
    ELSE
    LET prefix == IF a2 = 1 THEN 3 ELSE 4
        nalup  == [nalu EXCEPT !.startcodeprefix_len = prefix]
        \* the values of pos, after Buf[pos++] = fgetc(), at which the scan
        \* loop sees a start code end
        Hits   == {p \in (prefix + 1)..(avail + 1) :
                      \/ FindStartCode3(Buf, p - 4) = 1
                      \/ FindStartCode2(Buf, p - 3) = 1}
    IN
    IF Hits = {}
    THEN \* every byte was read, fgetc returned EOF, feof() ends the loop
         LET p   == avail + 1
             len == EofLen(p, prefix)
         IN  res(p - 1,
                 [f EXCEPT !.pos = Len(data), !.eof = TRUE],
                 SetHeader(nalup, len, SubSeq(Buf, prefix + 1, prefix + len)),
                 0, 0, p)
    ELSE LET p      == Min(Hits)
             b3     == FindStartCode3(Buf, p - 4)
             b2     == IF b3 # 1 THEN FindStartCode2(Buf, p - 3) ELSE 0
             rewind == Rewind(b3)
             len    == FoundLen(p, rewind, prefix)
         IN  res(p + rewind,
                 [f EXCEPT !.pos = f.pos + p + rewind, !.eof = FALSE],
                 SetHeader(nalup, len, SubSeq(Buf, prefix + 1, prefix + len)),
                 b2, b3, p)

-----------------------------------------------------------------------------
(* A parser that is not the one running                                    *)

NoCall == [made |-> FALSE, ret |-> 0, window |-> <<>>, data_before |-> <<>>,
           size_before |-> 0, data_after |-> <<>>, size_after |-> 0,
           from |-> 0, avail |-> 0, read_end |-> 0]

NoBreak == [ret |-> 0, unconsumed |-> <<>>]

NoRead == [after |-> 0, expect |-> <<>>, window |-> <<>>, valid |-> 0]

AIdle ==
    /\ ifile = [file |-> FileOf(<<>>), pos |-> 0, eof |-> FALSE]
    /\ bufsize = 0
    /\ aacbuffer = <<>>
    /\ aacframe = <<>>
    /\ size = 0
    /\ data_size = 0
    /\ offset = 0
    /\ cnt = 0
    /\ input_data = 0
    /\ apc = "idle"
    /\ frames = <<>>
    /\ lastcall = NoCall
    /\ brk = NoBreak
    /\ rd = NoRead

FIdle ==
    /\ ifh = [file |-> FileOf(<<>>), pos |-> 0, eof |-> FALSE]
    /\ flv = <<>>
    /\ tagheader = <<>>
    /\ vfh = [open |-> FALSE, data |-> <<>>, pos |-> 0]
    /\ afh = [open |-> FALSE, data |-> <<>>]
    /\ previousVedioTagsize = 0
    /\ fpc = "idle"
    /\ tags = <<>>

UIdle ==
    /\ recvData = <<>>
    /\ pktcnt = 0
    /\ fp1 = [data |-> <<>>, overrun |-> FALSE]
    /\ upc = "idle"
    /\ pkts = <<>>

\* no dispatch_queue constructed
DIdle ==
    /\ lock_ = [locked |-> FALSE, owner |-> 0]
    /\ q_ = <<>>
    /\ quit_ = FALSE
    /\ threads_ = <<>>
    /\ op = <<>>
    /\ mpc = [at |-> "idle", i |-> 0, cnt |-> 0]
    /\ popped = <<>>
    /\ runs = <<>>
    /\ woke = [one |-> 0, all |-> 0]

HIdle ==
    /\ h264bitstream = [file |-> FileOf(<<>>), pos |-> 0, eof |-> FALSE]
    /\ n = [startcodeprefix_len |-> 0, len |-> 0, max_size |-> 0,
            forbidden_bit |-> 0, nal_reference_idc |-> 0, nal_unit_type |-> 0,
            buf |-> <<>>]
    /\ info2 = 0
    /\ info3 = 0
    /\ data_offset = 0
    /\ nal_num = 0
    /\ pos = 0
    /\ hpc = "idle"
    /\ units = <<>>

-----------------------------------------------------------------------------
(* H.264: simplest_h264_parser                                             *)

\* the NALU_t after calloc(1, sizeof(NALU_t)), max_size and buf set
NewNalu ==
    [startcodeprefix_len |-> 0, len |-> 0, max_size |-> buffersize,
     forbidden_bit |-> 0, nal_reference_idc |-> 0, nal_unit_type |-> 0,
     buf |-> <<>>]

\* one printed row, with what the NALU_t held when it was printed
NalRecord(r, at) ==
    [nal_num |-> nal_num, data_offset |-> data_offset,
     idc |-> Shr(r.nalu.nal_reference_idc, 5),
     nal_unit_type |-> r.nalu.nal_unit_type,
     forbidden_bit |-> r.nalu.forbidden_bit,
     nal_reference_idc |-> r.nalu.nal_reference_idc,
     len |-> r.nalu.len,
     startcodeprefix_len |-> r.nalu.startcodeprefix_len,
     payload |-> SubSeq(r.nalu.buf, 1, r.nalu.len),
     buf0 |-> Buf0(r.nalu.buf),
     ret |-> r.ret, pos |-> r.pos, at |-> at, after |-> r.f.pos]

\* one iteration of while(!feof(h264bitstream))
H264Iterate ==
    /\ hpc = "loop"
    /\ ~h264bitstream.eof
    /\ LET r == GetAnnexbNALU(h264bitstream, n, info2, info3) IN
       IF r.overflow
       THEN /\ hpc' = "ub"
            /\ pos' = r.pos
            /\ UNCHANGED <<h264bitstream, n, info2, info3, data_offset,
                           nal_num, units>>
            /\ UNCHANGED <<avars, fvars, uvars, dvars>>
       ELSE /\ h264bitstream' = r.f
            /\ n' = r.nalu
            /\ info2' = r.info2
            /\ info3' = r.info3
            /\ pos' = r.pos
            /\ units' = Append(units, NalRecord(r, h264bitstream.pos))
            /\ data_offset' = data_offset + r.ret
            /\ nal_num' = nal_num + 1
            /\ hpc' = "loop"
            /\ UNCHANGED <<avars, fvars, uvars, dvars>>

\* the loop condition fails: free and return
H264Finish ==
    /\ hpc = "loop"
    /\ h264bitstream.eof
    /\ hpc' = "done"
    /\ UNCHANGED <<h264bitstream, n, info2, info3, data_offset, nal_num,
                   pos, units>>
    /\ UNCHANGED <<avars, fvars, uvars, dvars>>

HInitWith(file) ==
    /\ h264bitstream = [file |-> file, pos |-> 0, eof |-> FALSE]
    /\ n = NewNalu
    /\ info2 = 0
    /\ info3 = 0
    /\ data_offset = 0
    /\ nal_num = 0
    /\ pos = 0
    /\ hpc = "loop"
    /\ units = <<>>

\* Input streams: up to MaxPieces pieces, each a start code or a single byte
MaxPieces == 4

SC3 == <<0, 0, 1>>

SC4 == <<0, 0, 0, 1>>

Pieces == {SC3, SC4, <<0>>, <<1>>, <<103>>, <<197>>}

H264Streams ==
    {Flatten(ps) : ps \in UNION {[1..k -> Pieces] : k \in 0..MaxPieces}}

InitH264 == AIdle /\ FIdle /\ UIdle /\ DIdle /\ \E data \in H264Streams : HInitWith(FileOf(data))

NextH264 == H264Iterate \/ H264Finish

SpecH264 == InitH264 /\ [][NextH264]_vars

\* Streams with one unit about as long as the scan buffer: a start code and
\* k payload bytes, optionally followed by a second unit
LongStream(k, rest) == [head |-> SC3, fill |-> k, tail |-> rest]

H264LongStreams ==
    {LongStream(k, rest) :
        k \in (buffersize - 5)..(buffersize - 2), rest \in {<<>>, SC3 \o <<197>>}}

H264ShortStreams == {FileOf(data) : data \in H264Streams}

InitH264Big ==
    /\ AIdle
    /\ FIdle
    /\ UIdle
    /\ DIdle
    /\ \E file \in H264ShortStreams \cup H264LongStreams : HInitWith(file)

SpecH264Big == InitH264Big /\ [][NextH264]_vars

-----------------------------------------------------------------------------
(* H.264: properties                                                       *)

data264 == FileData(h264bitstream.file)

IsPrefixOf(s, t) == Len(s) <= Len(t) /\ SubSeq(t, 1, Len(s)) = s

\* the bytes at file offsets o .. o+Len(pat)-1 are pat
PatternAt(pat, o) ==
    /\ o >= 0
    /\ o + Len(pat) <= Len(data264)
    /\ SubSeq(data264, o + 1, o + Len(pat)) = pat

BeginsWithStartCode == PatternAt(SC3, 0) \/ PatternAt(SC4, 0)

StartCode(k) == IF k = 4 THEN SC4 ELSE IF k = 3 THEN SC3 ELSE <<>>

\* start code + payload of every record, concatenated in order
Rebuild(us) ==
    Flatten([i \in 1..Len(us) |->
                StartCode(us[i].startcodeprefix_len) \o us[i].payload])

RECURSIVE SumRet(_)
SumRet(us) == IF us = <<>> THEN 0 ELSE Head(us).ret + SumRet(Tail(us))

\* C1: for a stream that begins with a start code, when the reader has run
\* to end of stream the start codes and payloads of the emitted units,
\* concatenated in order, are the input; the return values sum to the stream
\* length; the last unit's payload is every byte after its start code.
H264RoundTrip ==
    (hpc = "done" /\ BeginsWithStartCode) =>
        /\ Rebuild(units) = data264
        /\ SumRet(units) = Len(data264)
        /\ units # <<>>
        /\ LET u == units[Len(units)] IN
           u.payload = SubSeq(data264, u.at + u.startcodeprefix_len + 1,
                              Len(data264))

\* a finished run over a stream of several units, with both start-code
\* lengths and a non-empty last unit
H264RoundTripWitness ==
    /\ hpc = "done"
    /\ BeginsWithStartCode
    /\ Len(units) >= 2
    /\ \E i \in DOMAIN units : units[i].startcodeprefix_len = 3
    /\ \E i \in DOMAIN units : units[i].startcodeprefix_len = 4
    /\ units[Len(units)].len >= 1

\* offsets at which a start code begins
StartCodeOffsets ==
    {o \in 0..Len(data264) : PatternAt(SC3, o) \/ PatternAt(SC4, o)}

\* the records of calls that found a start code and delimited a unit
Found(us) == SelectSeq(us, LAMBDA u : u.ret > 0)

\* C2: with k >= 1 bytes before the first start code, the units from that
\* start code on are still emitted with their payloads, and none of the k
\* leading bytes is emitted.
H264FindsFirstStartCode ==
    (hpc = "done" /\ StartCodeOffsets # {} /\ Min(StartCodeOffsets) >= 1) =>
        Rebuild(Found(units)) =
            SubSeq(data264, Min(StartCodeOffsets) + 1, Len(data264))

\* C3: a record is emitted only for a call that found a start code at the
\* read position; a call returning 0 or -1 emits none.
H264NoRecordForFailedCall ==
    \A i \in DOMAIN units : units[i].ret > 0

\* C4: the scan index pos never passes max_size, so no byte is stored past
\* the end of Buf (Buf[pos++] with pos = max_size is the first store outside).
H264PosWithinBuf ==
    pos <= n.max_size /\ hpc # "ub"

\* C5: the 4-byte pattern is tested first.  A unit's payload never ends with
\* the leading 00 of a 00 00 00 01 pattern; when 00 00 00 01 follows the
\* payload the stream position was moved back by 4 onto the pattern and the
\* next unit reports startcodeprefix_len = 4.
H264FourByteFirst ==
    \A i \in DOMAIN units :
        units[i].ret > 0 =>
            LET u == units[i]
                E == u.at + u.startcodeprefix_len + u.len
            IN  /\ ~(u.len >= 1 /\ PatternAt(SC4, E - 1))
                /\ PatternAt(SC4, E) =>
                      /\ u.after = E
                      /\ u.after = u.at + u.pos - 4
                      /\ i < Len(units) =>
                            /\ units[i + 1].at = E
                            /\ units[i + 1].startcodeprefix_len = 4

\* a unit with a payload, delimited by 00 00 00 01, and its successor
H264FourByteFirstWitness ==
    \E i \in DOMAIN units :
        /\ i < Len(units)
        /\ units[i].ret > 0
        /\ units[i].len >= 1
        /\ PatternAt(SC4, units[i].after)
        /\ units[i + 1].startcodeprefix_len = 4
        /\ units[i + 1].len >= 1

\* C6: for every emitted unit with first payload byte b the recorded fields
\* are forbidden_bit = b & 0x80, reference_idc = (b & 0x60) >> 5 (in 0..3),
\* unit_type = b & 0x1F.
H264HeaderFields ==
    \A i \in DOMAIN units :
        (units[i].ret > 0 /\ units[i].len >= 1) =>
            LET b == units[i].payload[1] IN
            /\ units[i].forbidden_bit = BitAnd(b, 128)
            /\ units[i].nal_reference_idc = Shr(BitAnd(b, 96), 5)
            /\ units[i].nal_reference_idc \in 0..3
            /\ units[i].nal_unit_type = BitAnd(b, 31)


\* C27: the H.264 reader terminates on every finite stream: every
\* GetAnnexbNALU call either reaches the end of the stream or leaves the
\* stream position strictly greater than where the call began, also after
\* the seek back onto the next start code, so the driver makes at most one
\* call per byte of the stream, and one more.
H264CallAdvances ==
    /\ \A i \in DOMAIN units :
           \/ units[i].after > units[i].at
           \/ units[i].after = Len(data264)
    /\ Len(units) <= Len(data264) + 1
    /\ hpc = "loop" =>
           \/ units = <<>>
           \/ h264bitstream.eof
           \/ h264bitstream.pos > units[Len(units)].at

\* a call that found an empty unit and sought back 4 bytes onto the pattern
\* 00 00 00 01 that follows it, and the call after it
H264CallAdvancesWitness ==
    \E i \in DOMAIN units :
        /\ i < Len(units)
        /\ units[i].ret > 0
        /\ units[i].len = 0
        /\ PatternAt(SC4, units[i].after)
        /\ units[i].after > units[i].at
        /\ units[i + 1].after > units[i + 1].at

\* C39: the position reported for each record is the byte offset in the
\* stream of that unit's start code: data_offset is 0 for the first record,
\* never decreases, and before each record equals the number of stream
\* bytes consumed by all earlier GetAnnexbNALU calls.
H264PositionIsOffset ==
    \A i \in DOMAIN units :
        /\ i = 1 => units[i].data_offset = 0
        /\ i > 1 => units[i].data_offset >= units[i - 1].data_offset
        /\ units[i].data_offset = units[i].at

-----------------------------------------------------------------------------
(* AAC: getADTSframe                                                       *)

RECURSIVE BitOr(_, _)
BitOr(a, b) ==
    IF a = 0 THEN b
    ELSE IF b = 0 THEN a
    ELSE (IF a % 2 = 1 \/ b % 2 = 1 THEN 1 ELSE 0)
         + 2 * BitOr(a \div 2, b \div 2)

\* a[k] of a malloc'ed array: a byte never stored is indeterminate, and junk
\* is the value this read of it gives
At(a, k, junk) == IF k < Len(a) THEN a[k + 1] ELSE junk

\* a[from] .. a[from+len-1]
Slice(a, from, len, junk) == [i \in 1..len |-> At(a, from + i - 1, junk)]

\* the array a after bytes were stored at a[off] ..
Store(a, off, bytes) ==
    SubSeq(a, 1, off) \o bytes \o SubSeq(a, off + Len(bytes) + 1, Len(a))

\* (buffer[0] == 0xff) && ((buffer[1] & 0xf0) == 0xf0)
SyncWord(buf, b, junk) ==
    At(buf, b, junk) = 255 /\ BitAnd(At(buf, b + 1, junk), 240) = 240

\* size, 0 at first, after the three size |= ... statements
FrameLength(buf, b, junk) ==
    LET s1 == BitOr(0,  Shl(BitAnd(At(buf, b + 3, junk), 3), 11))
        s2 == BitOr(s1, Shl(At(buf, b + 4, junk), 3))
    IN  BitOr(s2, Shr(BitAnd(At(buf, b + 5, junk), 224), 5))

\* the while(1) loop, from buffer = b with buf_size = bs
RECURSIVE ScanSync(_, _, _, _)
ScanSync(buf, b, bs, junk) ==
    IF bs < 7
    THEN [found |-> FALSE, buffer |-> b, buf_size |-> bs, size |-> 0]
    ELSE IF SyncWord(buf, b, junk)
    THEN [found |-> TRUE, buffer |-> b, buf_size |-> bs,
          size |-> FrameLength(buf, b, junk)]
    ELSE ScanSync(buf, b + 1, bs - 1, junk)

\* if(buf_size < size) return 1
NeedMoreDataOffByOne(buf_size, sz) == buf_size < sz - 1

NeedMoreDataNever(buf_size, sz) == FALSE

NeedMoreData(buf_size, sz) == buf_size < sz

\* getADTSframe(buf + b, bs, data, &dsize); the three pointers are never
\* null in the driver's calls.  at is where the scan stopped.
GetADTSframe(buf, b, bs, data, dsize, junk) ==
    LET s == ScanSync(buf, b, bs, junk) IN
    IF ~s.found
    THEN [ret |-> -1, data |-> data, data_size |-> dsize, at |-> s.buffer]
    ELSE IF NeedMoreData(s.buf_size, s.size)
    THEN [ret |-> 1, data |-> data, data_size |-> dsize, at |-> s.buffer]
    ELSE [ret |-> 0,
          data |-> Memcpy(data, Slice(buf, s.buffer, s.size, junk)),
          data_size |-> s.size, at |-> s.buffer]

\* One past the highest index of buf that the call reads: buffer[0], and
\* buffer[1] after a 0xff, at every position the loop tests; buffer[3..5] at
\* the sync word; the size bytes memcpy copies.  b when it reads nothing.
ReadEnd(buf, b, bs, junk) ==
    LET s == ScanSync(buf, b, bs, junk)
        tested == b..(IF s.found THEN s.buffer ELSE s.buffer - 1)
        ends == {b}
                \cup {IF At(buf, q, junk) = 255 THEN q + 2 ELSE q + 1 :
                         q \in tested}
                \cup (IF s.found THEN {s.buffer + 6} ELSE {})
                \cup (IF s.found /\ ~NeedMoreData(s.buf_size, s.size)
                      THEN {s.buffer + s.size} ELSE {})
    IN  CHOOSE e \in ends : \A x \in ends : x <= e

-----------------------------------------------------------------------------
(* AAC: simplest_aac_parser                                                *)

\* malloc(1024*1024): aacbuffer
AacBufferSize == 1048576

\* malloc(1024*5): aacframe
AacFrameSize == 5120

\* the values a read of a byte never stored may give
Indeterminate == {0, 255}

\* memcpy(aacbuffer, aacbuffer + src, len) copying upwards from byte 0
CopyUp(buf, src, len) == Store(buf, 0, Slice(buf, src, len, 0))

\* the same copying downwards from byte len-1; the two differ only when the
\* regions overlap, which memcpy leaves undefined
RECURSIVE CopyDown(_, _, _)
CopyDown(buf, src, len) ==
    IF len = 0 THEN buf
    ELSE CopyDown([buf EXCEPT ![len] = buf[src + len]], src, len - 1)

\* the printed row for the frame in aacframe, with the frame's bytes
AacRow(frame, sz, at, junk) ==
    [cnt |-> cnt,
     profile |-> Shr(BitAnd(At(frame, 2, junk), 192), 6),
     sampling_frequency_index |-> Shr(BitAnd(At(frame, 2, junk), 60), 2),
     channel_config_index |->
         BitOr(BitAnd(At(frame, 2, junk), Shl(1, 2)),
               Shr(BitAnd(At(frame, 3, junk), 192), 6)),
     size |-> sz,
     bytes |-> Slice(frame, 0, sz, junk),
     at |-> at, input_data |-> input_data]

MaxCnt == 4

\* data_size = fread(aacbuffer+offset,1,1024*1024-offset,ifile);
\* input_data = aacbuffer
AacRead ==
    /\ apc = "outer"
    /\ ~ifile.eof
    /\ LET data   == FileData(ifile.file)
           want   == bufsize - offset
           got    == Min({want, Len(data) - ifile.pos})
           fresh  == SubSeq(data, ifile.pos + 1, ifile.pos + got)
           newbuf == Store(aacbuffer, offset, fresh)
       IN  /\ ifile' = [ifile EXCEPT !.pos = @ + got, !.eof = (got < want)]
           /\ aacbuffer' = newbuf
           /\ data_size' = got
           /\ input_data' = 0
           /\ rd' = [after |-> brk.ret, expect |-> brk.unconsumed \o fresh,
                     window |-> Slice(newbuf, 0, got, 0),
                     valid |-> offset + got]
    /\ apc' = "inner"
    /\ UNCHANGED <<bufsize, aacframe, size, offset, cnt, frames, lastcall, brk>>
    /\ UNCHANGED <<hvars, fvars, uvars, dvars>>

\* one iteration of the inner while(1)
AacFrame ==
    /\ apc = "inner"
    /\ \E junk \in Indeterminate :
       LET r == GetADTSframe(aacbuffer, input_data, data_size, aacframe,
                             size, junk)
           left == [ret |-> r.ret,
                    unconsumed |-> Slice(aacbuffer, input_data,
                                         rd.valid - input_data, junk)]
       IN  /\ lastcall' = [made |-> TRUE, ret |-> r.ret,
                           window |-> Slice(aacbuffer, input_data, data_size,
                                            junk),
                           data_before |-> aacframe, size_before |-> size,
                           data_after |-> r.data, size_after |-> r.data_size,
                           from |-> input_data, avail |-> data_size,
                           read_end |-> ReadEnd(aacbuffer, input_data,
                                                data_size, junk)]
           /\ IF r.ret = -1
              THEN /\ apc' = "outer"
                   /\ brk' = left
                   /\ UNCHANGED <<aacbuffer, aacframe, size, data_size, offset,
                                  cnt, input_data, frames>>
              ELSE IF r.ret = 1
              THEN /\ \E copy \in {CopyUp(aacbuffer, input_data, data_size),
                                   CopyDown(aacbuffer, input_data, data_size)} :
                          aacbuffer' = copy
                   /\ offset' = data_size
                   /\ apc' = "outer"
                   /\ brk' = left
                   /\ UNCHANGED <<aacframe, size, data_size, cnt, input_data,
                                  frames>>
              ELSE IF r.data_size > AacFrameSize
              THEN /\ apc' = "ub"
                   /\ UNCHANGED <<aacbuffer, aacframe, size, data_size, offset,
                                  cnt, input_data, frames, brk>>
              ELSE /\ cnt < MaxCnt
                   /\ aacframe' = r.data
                   /\ size' = r.data_size
                   /\ frames' = Append(frames,
                                       AacRow(r.data, r.data_size, r.at, junk))
                   /\ data_size' = data_size - r.data_size
                   /\ input_data' = input_data + r.data_size
                   /\ cnt' = cnt + 1
                   /\ apc' = "inner"
                   /\ UNCHANGED <<aacbuffer, offset, brk>>
    /\ UNCHANGED <<ifile, bufsize, rd>>
    /\ UNCHANGED <<hvars, fvars, uvars, dvars>>

\* while(!feof(ifile)) fails: close and free
AacFinish ==
    /\ apc = "outer"
    /\ ifile.eof
    /\ apc' = "done"
    /\ UNCHANGED <<ifile, bufsize, aacbuffer, aacframe, size, data_size, offset,
                   cnt, input_data, frames, lastcall, brk, rd>>
    /\ UNCHANGED <<hvars, fvars, uvars, dvars>>

AInitWith(file, bs) ==
    /\ ifile = [file |-> file, pos |-> 0, eof |-> FALSE]
    /\ bufsize = bs
    /\ aacbuffer = <<>>
    /\ aacframe = <<>>
    /\ size = 0
    /\ data_size = 0
    /\ offset = 0
    /\ cnt = 0
    /\ input_data = 0
    /\ apc = "outer"
    /\ frames = <<>>
    /\ lastcall = NoCall
    /\ brk = NoBreak
    /\ rd = NoRead

\* Input streams: up to MaxAacPieces pieces, each an ADTS frame (header
\* bytes 3..5 giving the frame length 8 or 0) or a single byte
MaxAacPieces == 3

Frame8 == <<255, 249, 76, 64, 1, 0, 252, 33>>

Frame0 == <<255, 241, 80, 128, 0, 0, 252>>

AacPieces == {Frame8, Frame0, <<0>>, <<255>>}

AacStreams ==
    {Flatten(ps) : ps \in UNION {[1..k -> AacPieces] : k \in 0..MaxAacPieces}}

\* the sizes of the read buffer: the program's, and 1..MaxBufSize
MaxBufSize == 15

BufSizes == {AacBufferSize} \cup 1..MaxBufSize

InitAAC ==
    /\ HIdle
    /\ FIdle
    /\ UIdle
    /\ DIdle
    /\ \E data \in AacStreams, bs \in BufSizes : AInitWith(FileOf(data), bs)

NextAAC == AacRead \/ AacFrame \/ AacFinish

SpecAAC == InitAAC /\ [][NextAAC]_vars

\* a 7-byte ADTS header whose 13-bit frame-length field holds len
AdtsHeader(len) ==
    <<255, 241, 80, 128 + ((len \div 2048) % 4), (len \div 8) % 256,
      ((len % 8) * 32) + 31, 252>>

\* pieces that follow a long frame
MaxLongTail == 2

\* Streams that begin with a frame as long as the frame buffer, a byte
\* longer, or of the greatest length the field can hold, followed by up to
\* MaxLongTail pieces; read with the program's read size
AacLongStreams ==
    {[head |-> AdtsHeader(len), fill |-> len - 7, tail |-> Flatten(ps)] :
        len \in {AacFrameSize, AacFrameSize + 1, (2 ^ 13) - 1},
        ps \in UNION {[1..k -> AacPieces] : k \in 0..MaxLongTail}}

InitAACBig ==
    /\ HIdle
    /\ FIdle
    /\ UIdle
    /\ DIdle
    /\ \E file \in AacLongStreams : AInitWith(file, AacBufferSize)

SpecAACBig == InitAACBig /\ [][NextAAC]_vars

-----------------------------------------------------------------------------
(* AAC: properties                                                         *)

dataAac == FileData(ifile.file)

FrameBytes(fs) == [i \in 1..Len(fs) |-> fs[i].bytes]

\* The frames the driver's inner loop emits from one window holding all of
\* buf, as sequences of bytes; at most fuel of them.
RECURSIVE InnerLoop(_, _, _, _, _, _)
InnerLoop(buf, input, dsize, frame, sz, fuel) ==
    IF fuel = 0 THEN <<>>
    ELSE LET r == GetADTSframe(buf, input, dsize, frame, sz, 0) IN
         IF r.ret # 0 THEN <<>>
         ELSE <<Slice(r.data, 0, r.data_size, 0)>>
              \o InnerLoop(buf, input + r.data_size, dsize - r.data_size,
                           r.data, r.data_size, fuel - 1)

WholeFrames(data) == InnerLoop(data, 0, Len(data), <<>>, 0, MaxCnt + 1)

\* the stream is a sequence of whole frames and nothing else
WholeFramesOnly(data) ==
    /\ Flatten(WholeFrames(data)) = data
    /\ \A i \in DOMAIN WholeFrames(data) : Len(WholeFrames(data)[i]) >= 7

\* C7: for a stream of whole frames, the frames emitted when it is read in
\* chunks of any size are the frames emitted when it is read in one chunk.
AacChunkInvariance ==
    (apc = "done" /\ WholeFramesOnly(dataAac)) =>
        FrameBytes(frames) = WholeFrames(dataAac)

\* C8: on need-more-data (1) every byte from the read position to the end of
\* the buffered data is kept, and the next scan window is those bytes
\* followed by all newly read bytes.
AacCarryKeepsBytes ==
    /\ (apc = "outer" /\ brk.ret = 1) =>
           Slice(aacbuffer, 0, Len(brk.unconsumed), 0) = brk.unconsumed
    /\ rd.after = 1 => rd.window = rd.expect

\* the window has the sync word at offset k
SyncAt(w, k) == w[k + 1] = 255 /\ w[k + 2] \div 16 = 15

\* the 13-bit frame length of the header at offset k
Len13(w, k) == (w[k + 4] % 4) * 2048 + w[k + 5] * 8 + w[k + 6] \div 32

\* C9: getADTSframe returns 0 only when frame_length bytes are available
\* from the sync word on, and then copies exactly those bytes; with fewer
\* bytes available it returns 1; unless it returns 0 it leaves the frame
\* buffer and *data_size alone; no emitted frame is shorter than its length.
AacEmitsWholeFrames ==
    LET w == lastcall.window
        S == {k \in 0..(Len(w) - 7) : SyncAt(w, k)}
    IN  /\ (lastcall.made /\ lastcall.ret = 0) =>
               /\ S # {}
               /\ LET k == Min(S)
                      L == Len13(w, k)
                  IN  /\ Len(w) - k >= L
                      /\ lastcall.size_after = L
                      /\ SubSeq(lastcall.data_after, 1, L)
                             = SubSeq(w, k + 1, k + L)
        /\ lastcall.ret # 0 =>
               /\ lastcall.data_after = lastcall.data_before
               /\ lastcall.size_after = lastcall.size_before
        /\ (S # {} /\ Len(w) - Min(S) < Len13(w, Min(S))) => lastcall.ret = 1
        /\ \A i \in DOMAIN frames :
               /\ Len(frames[i].bytes) = frames[i].size
               /\ frames[i].size >= 6 =>
                      Len13(frames[i].bytes, 0) = frames[i].size

\* a whole frame emitted from the window read after a need-more-data return
AacEmitsWholeFramesWitness ==
    /\ lastcall.made
    /\ lastcall.ret = 0
    /\ lastcall.size_after >= 7
    /\ rd.after = 1
    /\ frames # <<>>

\* C10: every emitted frame has frame_length >= 7 and as many bytes.
AacFrameLengthAtLeast7 ==
    \A i \in DOMAIN frames :
        /\ frames[i].size >= 7
        /\ Len(frames[i].bytes) = frames[i].size

\* C11: a call on a window of fewer than 7 bytes returns -1 and leaves the
\* frame buffer and size alone, and the bytes left over when the inner loop
\* is left on -1 with fewer than 7 of them open the window of the next read
\* that delivers bytes.
AacShortWindowKept ==
    /\ (lastcall.made /\ lastcall.avail < 7) =>
           /\ lastcall.ret = -1
           /\ lastcall.data_after = lastcall.data_before
           /\ lastcall.size_after = lastcall.size_before
    /\ (rd.after = -1 /\ Len(rd.window) >= 1
           /\ Len(rd.expect) - Len(rd.window) < 7) =>
           rd.window = rd.expect

\* C12: right after a frame of length L >= 7 found at buffer offset s is
\* emitted, the read pointer is s + L, also when bytes were skipped before s.
AacNextScanAfterFrame ==
    (apc = "inner" /\ lastcall.made /\ lastcall.ret = 0
       /\ lastcall.size_after >= 7) =>
        LET f == frames[Len(frames)] IN input_data = f.at + f.size

\* C13: data_size is never negative, the window lies inside the bytes
\* buffered, and no call reads at or beyond buffer + buf_size.
AacCursorInside ==
    /\ data_size >= 0
    /\ input_data >= 0
    /\ input_data + data_size <= rd.valid
    /\ input_data + data_size <= Len(aacbuffer)
    /\ lastcall.made => lastcall.read_end <= lastcall.from + lastcall.avail

\* a frame found after skipped bytes and ending with the window
AacCursorInsideWitness ==
    /\ lastcall.made
    /\ lastcall.ret = 0
    /\ lastcall.size_after >= 7
    /\ lastcall.read_end = lastcall.from + lastcall.avail
    /\ frames[Len(frames)].at > frames[Len(frames)].input_data


\* C26: the ADTS reader terminates on every finite stream: every pass of the
\* frame loop that emits a frame advances the read position by at least one
\* byte, whatever header bytes follow the sync word, so no two frames are
\* emitted from the same position with the same bytes left.
AacEmitAdvances ==
    /\ \A i \in 1..Len(frames) : frames[i].size >= 1
    /\ (lastcall.made /\ lastcall.ret = 0 /\ apc = "inner") =>
           /\ input_data > lastcall.from
           /\ data_size < lastcall.avail

\* C38: getADTSframe never copies more bytes into the caller's frame buffer
\* than it holds: for every call that delivers a frame the copied length is
\* at most the size of aacframe, whatever the 13-bit frame-length field is.
AacFrameFits ==
    (lastcall.made /\ lastcall.ret = 0) =>
        lastcall.size_after <= AacFrameSize

\* C29: for every emitted frame the reported channel configuration is the
\* header's 3-bit field ((byte2 & 0x01) << 2) | ((byte3 & 0xC0) >> 6), which
\* depends on no other header bit.
AacChannelConfiguration ==
    \A i \in 1..Len(frames) :
        frames[i].size >= 7 =>
            frames[i].channel_config_index =
                (frames[i].bytes[3] % 2) * 4 + (frames[i].bytes[4] \div 64)

-----------------------------------------------------------------------------
(* FLV: stdio, structs and byte order                                      *)

\* the element of a one-element set
The(S) == CHOOSE x \in S : TRUE

\* fread of want bytes from f: the bytes delivered and the FILE afterwards
FRead(f, want) ==
    The({ LET left == IF f.pos < Len(data) THEN Len(data) - f.pos ELSE 0
              got  == IF want < left THEN (IF want < 0 THEN 0 ELSE want)
                      ELSE left
          IN  [bytes |-> SubSeq(data, f.pos + 1, f.pos + got),
               f |-> [f EXCEPT !.pos = @ + got, !.eof = @ \/ got < want]] :
          data \in {FileData(f.file)} })

\* fgetc(f): c is the byte, or EOF (-1)
FGetc(f) ==
    The({ [c |-> IF r.bytes = <<>> THEN -1 ELSE r.bytes[1],
           bytes |-> r.bytes, f |-> r.f] : r \in {FRead(f, 1)} })

\* fseek to the absolute position target: fails, changing nothing, when the
\* position would be negative; otherwise clears the end-of-file indicator
FSeek(f, target) ==
    IF target < 0 THEN f ELSE [f EXCEPT !.pos = target, !.eof = FALSE]

\* a buffer of nbytes bytes after a read stored bytes at its start; rest is
\* what the buffer held before
Pad(bytes, nbytes, rest) ==
    bytes \o [i \in 1..(nbytes - Len(bytes)) |-> rest]

\* fwrite / fputc of bytes at the position of the output o; a gap left by a
\* seek past the end reads as zeros
FWrite(o, bytes) ==
    LET base == IF o.pos > Len(o.data) THEN Pad(o.data, o.pos, 0) ELSE o.data
    IN  [o EXCEPT !.data = Store(base, o.pos, bytes),
                  !.pos = o.pos + Len(bytes)]

\* fseek(o, d, SEEK_CUR) on an output
OSeekCur(o, d) == IF o.pos + d < 0 THEN o ELSE [o EXCEPT !.pos = o.pos + d]

\* sizeof(FLV_HEADER): Signature[3], Version, Flags, 3 bytes of padding,
\* then the 4-byte DataOffset
SizeofFlvHeader == 12

\* sizeof(TAG_HEADER): TagType, DataSize[3], Timestamp[3], 1 byte of padding,
\* then the 4-byte Reserved
SizeofTagHeader == 12

\* flv.DataOffset: the unsigned int at offset 8 of the struct, in the byte
\* order of the host (little-endian)
DataOffset(h) == h[9] + 256 * h[10] + 65536 * h[11] + 16777216 * h[12]

\* the bytes of an unsigned int in memory
UintBytes(v) ==
    <<v % 256, (v \div 256) % 256, (v \div 65536) % 256, v \div 16777216>>

\* tagheader.TagType
TagType(th) == th[1]

\* tagheader_datasize
TagDataSize(th) == th[2] * 65536 + th[3] * 256 + th[4]

\* tagheader_timestamp
TagTimestamp(th) == th[5] * 65536 + th[6] * 256 + th[7]

\* reverse_bytes(p, 4) stored in an int: r |= p[i] << (24 - 8*i)
ReverseBytes(p) ==
    (IF p[1] >= 128 THEN p[1] - 256 ELSE p[1]) * 16777216
        + p[2] * 65536 + p[3] * 256 + p[4]

\* for(i < count) fputc(fgetc(f), out): the bytes put (an EOF is put as 0xff),
\* the file offset each came from (-1 for an EOF), and the FILE afterwards
CopyBytes(f, count) ==
    The({ LET left == IF f.pos < Len(data) THEN Len(data) - f.pos ELSE 0
              cnt0 == IF count < 0 THEN 0 ELSE count
              got  == IF cnt0 < left THEN cnt0 ELSE left
          IN  [bytes |-> Pad(SubSeq(data, f.pos + 1, f.pos + got), cnt0, 255),
               src |-> [i \in 1..cnt0 |->
                           IF i <= got THEN f.pos + i - 1 ELSE -1],
               f |-> [f EXCEPT !.pos = @ + got, !.eof = @ \/ got < cnt0]] :
          data \in {FileData(f.file)} })

-----------------------------------------------------------------------------
(* FLV: the script tag (AMF)                                               *)

\* "duration"
KeyDuration == <<100, 117, 114, 97, 116, 105, 111, 110>>

\* "width"
KeyWidth == <<119, 105, 100, 116, 104>>

\* "height"
KeyHeight == <<104, 101, 105, 103, 104, 116>>

\* "videodatarate"
KeyVideodatarate == <<118, 105, 100, 101, 111, 100, 97, 116, 97, 114, 97, 116, 101>>

\* "framerate"
KeyFramerate == <<102, 114, 97, 109, 101, 114, 97, 116, 101>>

\* "videocodecid"
KeyVideocodecid == <<118, 105, 100, 101, 111, 99, 111, 100, 101, 99, 105, 100>>

\* "audiodatarate"
KeyAudiodatarate == <<97, 117, 100, 105, 111, 100, 97, 116, 97, 114, 97, 116, 101>>

\* "audiosamplerate"
KeyAudiosamplerate == <<97, 117, 100, 105, 111, 115, 97, 109, 112, 108, 101, 114, 97, 116, 101>>

\* "audiosamplesize"
KeyAudiosamplesize == <<97, 117, 100, 105, 111, 115, 97, 109, 112, 108, 101, 115, 105, 122, 101>>

\* "stereo"
KeyStereo == <<115, 116, 101, 114, 101, 111>>

\* "audiocodecid"
KeyAudiocodecid == <<97, 117, 100, 105, 111, 99, 111, 100, 101, 99, 105, 100>>

\* "filesize"
KeyFilesize == <<102, 105, 108, 101, 115, 105, 122, 101>>

\* "onMetaData"
OnMetaData == <<111, 110, 77, 101, 116, 97, 68, 97, 116, 97>>

\* the keys whose values are decoded
AllowList ==
    {KeyDuration, KeyWidth, KeyHeight, KeyVideodatarate,
     KeyFramerate, KeyVideocodecid, KeyAudiodatarate, KeyAudiosamplerate,
     KeyAudiosamplesize, KeyStereo, KeyAudiocodecid, KeyFilesize}

\* a char array holding bytes, read as a C string
CStr(bytes) ==
    LET z == {i \in 1..Len(bytes) : bytes[i] = 0}
    IN  IF z = {} THEN bytes ELSE SubSeq(bytes, 1, Min(z) - 1)

\* dataVal.value with the bytes in the wrong order
LongOfReversed(value) ==
    <<value[8] * 256 + value[7], value[6] * 256 + value[5],
      value[4] * 256 + value[3], value[2] * 256 + value[1]>>

\* dataVal.value = value[0] << 56 | value[1] << 48 | ... | value[7], written
\* as its four 16-bit limbs, most significant first
LongOf(value) ==
    <<value[1] * 256 + value[2], value[3] * 256 + value[4],
      value[5] * 256 + value[6], value[7] * 256 + value[8]>>

\* m * 2^e with m odd (or 0), from m * 2^e
RECURSIVE Dyadic(_, _)
Dyadic(m, e) ==
    IF m = 0 THEN [m |-> 0, e |-> 0]
    ELSE IF m % 2 = 0 THEN Dyadic(m \div 2, e + 1)
    ELSE [m |-> m, e |-> e]

\* dataVal.numValue: the IEEE-754 double with the bits of the long, as
\* [neg, m, e] for (-1)^neg * m * 2^e.  Given exactly for normal numbers
\* whose low 32 fraction bits are 0; other bit patterns are left as limbs.
DoubleOf(limbs) ==
    LET neg  == limbs[1] \div 32768
        expo == (limbs[1] % 32768) \div 16
        top  == (16 + (limbs[1] % 16)) * 65536 + limbs[2]
    IN  IF expo > 0 /\ expo < 2047 /\ limbs[3] = 0 /\ limbs[4] = 0
        THEN [exact |-> TRUE, neg |-> neg, d |-> Dyadic(top, expo - 1043),
              limbs |-> limbs]
        ELSE [exact |-> FALSE, neg |-> neg, d |-> Dyadic(0, 0),
              limbs |-> limbs]

\* no value printed for a key
NoValue == DoubleOf(<<0, 0, 0, 0>>)

\* the furthest offset a read has fetched a byte from, plus one
Hi(h, r) == IF r.bytes # <<>> /\ r.f.pos > h THEN r.f.pos ELSE h

\* a 2-byte big-endian length read into tmp[2]; junk is what tmp held where
\* a short fread left it unwritten
Len16(bytes, junk) ==
    LET tmp == Pad(bytes, 2, junk) IN tmp[1] * 256 + tmp[2]

\* value_type == 2 of a key that is not decoded, with the string left in
\* place
SkipStringLengthOnly(f, junk) ==
    The({ [f |-> r.f, r |-> r] : r \in {FRead(f, 2)} })

\* value_type == 2 of a key that is not decoded: read the 2-byte length,
\* fseek over the string.  r is the read of the length.
SkipString(f, junk) ==
    The({ [f |-> FSeek(r.f, r.f.pos + Len16(r.bytes, junk)), r |-> r] :
          r \in {FRead(f, 2)} })

\* the reads that open a pass of for(i < num): the key length (r1), the key
\* (r2) and the value type (c)
ReadKey(f, junk) ==
    The({ The({ The({ [r1 |-> r1, r2 |-> r2, c |-> c] :
                      c \in {FGetc(r2.f)} }) :
                r2 \in {FRead(r1.f, Len16(r1.bytes, junk))} }) :
          r1 \in {FRead(f, 2)} })

\* char value_type = fgetc(ifh), as an unsigned byte
ValueType(c) == IF c.c = -1 THEN 255 ELSE c.c

\* a key for which nothing is printed, the FILE left at f
Nothing(f) ==
    [f |-> f, label |-> <<>>, number |-> NoValue, boolean |-> FALSE,
     r |-> [bytes |-> <<>>, f |-> f]]

\* what follows the value type, for the key KeyString read by k: the FILE
\* afterwards, the label and value printed, and the last read made
DecodeValue(k, KeyString, junk) ==
    IF KeyString \in AllowList
    THEN IF ValueType(k.c) = 0
         THEN The({ [f |-> r3.f,
                     label |-> IF KeyString = KeyStereo THEN <<>>
                               ELSE KeyString,
                     number |-> DoubleOf(LongOf(Pad(r3.bytes, 8, 0))),
                     boolean |-> FALSE, r |-> r3] :
                    r3 \in {FRead(k.c.f, 8)} })
         ELSE IF ValueType(k.c) = 1
         THEN The({ [f |-> c2.f, label |-> KeyStereo, number |-> NoValue,
                     boolean |-> c2.c # 0, r |-> c2] :
                    c2 \in {FGetc(k.c.f)} })
         ELSE Nothing(k.c.f)
    ELSE IF ValueType(k.c) = 0 THEN Nothing(FSeek(k.c.f, k.c.f.pos + 8))
         ELSE IF ValueType(k.c) = 1 THEN Nothing(FSeek(k.c.f, k.c.f.pos + 1))
         ELSE IF ValueType(k.c) = 2
         THEN The({ [Nothing(sk.f) EXCEPT !.r = sk.r] :
                    sk \in {SkipString(k.c.f, junk)} })
         ELSE Nothing(k.c.f)

\* one pass of for(i < num).  st = [f, out, hi]: the FILE, the keys met with
\* what was printed for each, and the read high-water mark.
DecodeKey(st, junk) ==
    The({ The({ The({
        [f |-> v.f,
         out |-> Append(st.out,
                    [at |-> st.f.pos, key |-> KeyString,
                     value_type |-> ValueType(k.c), label |-> v.label,
                     number |-> v.number, boolean |-> v.boolean,
                     after |-> v.f.pos]),
         hi |-> Hi(Hi(Hi(Hi(st.hi, k.r1), k.r2), k.c), v.r)] :
            v \in {DecodeValue(k, KeyString, junk)} }) :
        KeyString \in {CStr(k.r2.bytes)} }) :
    k \in {ReadKey(st.f, junk)} })

\* for(i < num), from pass i on
RECURSIVE DecodeKeys(_, _, _, _)
DecodeKeys(st, i, num, junk) ==
    IF i >= num THEN st
    ELSE The({ DecodeKeys(st2, i + 1, num, junk) :
               st2 \in {DecodeKey(st, junk)} })

\* if(ftell(ifh) != tagheader_datasize+9+4+11) fseek(ifh, tagheader_datasize+24, SEEK_SET)
ScriptEnd(f, datasize) ==
    IF f.pos # datasize + 9 + 4 + 11 THEN FSeek(f, datasize + 24) ELSE f

\* the first AMF packet: if(fgetc(ifh) == 2), the 2-byte length and the
\* string
ScriptName(f, junk) ==
    The({ IF c1.c = 2
          THEN The({ The({ [f |-> r2.f, name |-> CStr(r2.bytes),
                            hi |-> Hi(Hi(Hi(0, c1), r1), r2)] :
                           r2 \in {FRead(r1.f, Len16(r1.bytes, junk))} }) :
                     r1 \in {FRead(c1.f, 2)} })
          ELSE [f |-> c1.f, name |-> <<>>, hi |-> Hi(0, c1)] :
          c1 \in {FGetc(f)} })

\* the second AMF packet: if(fgetc(ifh) == 8), the 4-byte count and the keys
ScriptArray(nm, junk) ==
    The({ IF c2.c = 8
          THEN The({ DecodeKeys([f |-> r3.f, out |-> <<>>,
                                 hi |-> Hi(Hi(nm.hi, c2), r3)],
                                0, ReverseBytes(Pad(r3.bytes, 4, 0)), junk) :
                     r3 \in {FRead(c2.f, 4)} })
          ELSE [f |-> c2.f, out |-> <<>>, hi |-> Hi(nm.hi, c2)] :
          c2 \in {FGetc(nm.f)} })

\* case TAG_TYPE_SCRIPT, from the FILE f at the tag data
ScriptTag(f, datasize, junk) ==
    The({ The({ [f |-> ScriptEnd(st.f, datasize), name |-> nm.name,
                 meta |-> st.out, hi |-> st.hi, decode_end |-> st.f.pos] :
                st \in {ScriptArray(nm, junk)} }) :
          nm \in {ScriptName(f, junk)} })

-----------------------------------------------------------------------------
(* FLV: simplest_flv_parser                                                *)

\* rows the tag loop may print in a run
MaxFlvRows == 6

\* fread of the FLV_HEADER, fseek(ifh, flv.DataOffset, SEEK_SET)
FlvHeader ==
    /\ fpc = "start"
    /\ \E r \in {FRead(ifh, SizeofFlvHeader)} :
       \E h \in {Memcpy(flv, r.bytes)} :
           /\ flv' = h
           /\ ifh' = FSeek(r.f, DataOffset(h))
    /\ fpc' = "loop"
    /\ UNCHANGED <<tagheader, vfh, afh, previousVedioTagsize, tags>>
    /\ UNCHANGED <<hvars, avars, uvars, dvars>>

\* what a pass of the tag loop leaves when the switch runs no case
NoBody(f) ==
    [f |-> f, vfh |-> vfh, afh |-> afh, pvts |-> previousVedioTagsize,
     name |-> <<>>, meta |-> <<>>, hi |-> 0, decode_end |-> 0,
     vsrc |-> <<>>, asrc |-> <<>>]

\* case TAG_TYPE_AUDIO
AudioTag(f, th) ==
    The({ The({ [NoBody(k.f) EXCEPT
                    !.afh = [open |-> TRUE, data |-> afh.data \o k.bytes],
                    !.asrc = k.src] :
                k \in {CopyBytes(c.f, TagDataSize(th) - 1)} }) :
          c \in {FGetc(f)} })

\* the video output once the bytes ahead of the tag header are written: the
\* FLV header and a zero previous-tag-size for the first video tag, the
\* previous video tag's size for a later one
VideoLead ==
    IF vfh.open
    THEN FWrite(vfh, UintBytes(previousVedioTagsize))
    ELSE The({ FWrite(OSeekCur(v, DataOffset(flv) - SizeofFlvHeader),
                      UintBytes(0)) :
               v \in {FWrite([open |-> TRUE, data |-> <<>>, pos |-> 0],
                             flv)} })

\* case TAG_TYPE_VIDEO
VideoTag(f, th) ==
    The({ The({ The({ The({
        [NoBody(k.f) EXCEPT
            !.vfh = FWrite(OSeekCur(v1, 11 - SizeofTagHeader), k.bytes),
            !.pvts = 11 + TagDataSize(th),
            !.vsrc = k.src] :
            v1 \in {FWrite(v0, th)} }) :
        v0 \in {VideoLead} }) :
    k \in {CopyBytes(FSeek(c.f, c.f.pos - 1), TagDataSize(th))} }) :
    c \in {FGetc(f)} })

\* switch(tagheader.TagType), not reached when feof(ifh) broke the loop
TagBody(f, th, junk) ==
    IF f.eof THEN NoBody(f)
    ELSE IF TagType(th) = 8 THEN AudioTag(f, th)
    ELSE IF TagType(th) = 9 THEN VideoTag(f, th)
    ELSE IF TagType(th) = 18
    THEN The({ [NoBody(sc.f) EXCEPT !.name = sc.name, !.meta = sc.meta,
                                    !.hi = sc.hi,
                                    !.decode_end = sc.decode_end] :
               sc \in {ScriptTag(f, TagDataSize(th), junk)} })
    ELSE NoBody(f)

\* one pass of do { ... } while(!feof(ifh))
FlvTag ==
    /\ fpc = "loop"
    /\ Len(tags) < MaxFlvRows
    /\ \E junk \in Indeterminate :
       \E r1 \in {FRead(ifh, 4)} :
       \E r2 \in {FRead(r1.f, SizeofTagHeader)} :
       \E th \in {Memcpy(tagheader, r2.bytes)} :
       \E f3 \in {FSeek(r2.f, r2.f.pos + 11 - SizeofTagHeader)} :
       \E b \in {TagBody(f3, th, junk)} :
           /\ tagheader' = th
           /\ ifh' = b.f
           /\ vfh' = b.vfh
           /\ afh' = b.afh
           /\ previousVedioTagsize' = b.pvts
           /\ tags' = Append(tags,
                  [type |-> TagType(th), datasize |-> TagDataSize(th),
                   timestamp |-> TagTimestamp(th), start |-> ifh.pos,
                   at |-> r1.f.pos, got |-> Len(r2.bytes),
                   processed |-> ~f3.eof, data_at |-> f3.pos,
                   after |-> b.f.pos, name |-> b.name, meta |-> b.meta,
                   hi |-> b.hi, decode_end |-> b.decode_end,
                   vsrc |-> b.vsrc, asrc |-> b.asrc])
           /\ fpc' = IF f3.eof \/ b.f.eof THEN "closing" ELSE "loop"
    /\ UNCHANGED flv
    /\ UNCHANGED <<hvars, avars, uvars, dvars>>

\* fclose(ifh), fclose(vfh), fclose(afh)
FlvFinish ==
    /\ fpc = "closing"
    /\ fpc' = "done"
    /\ UNCHANGED <<ifh, flv, tagheader, vfh, afh, previousVedioTagsize, tags>>
    /\ UNCHANGED <<hvars, avars, uvars, dvars>>

\* simplest_flv_parser after fopen; flv and tagheader are not initialized
FInitWith(file, junk) ==
    /\ ifh = [file |-> file, pos |-> 0, eof |-> FALSE]
    /\ flv = [i \in 1..SizeofFlvHeader |-> junk]
    /\ tagheader = [i \in 1..SizeofTagHeader |-> junk]
    /\ vfh = [open |-> FALSE, data |-> <<>>, pos |-> 0]
    /\ afh = [open |-> FALSE, data |-> <<>>]
    /\ previousVedioTagsize = 0
    /\ fpc = "start"
    /\ tags = <<>>

-----------------------------------------------------------------------------
(* FLV: input streams                                                      *)

\* big-endian 24- and 32-bit fields
U24(v) == <<v \div 65536, (v \div 256) % 256, v % 256>>

U32(v) == <<v \div 16777216, (v \div 65536) % 256, (v \div 256) % 256, v % 256>>

\* an FLV tag: type, data size, timestamp, timestamp extension, stream id,
\* data
FlvTagBytes(type, ts, data) ==
    <<type>> \o U24(Len(data)) \o U24(ts) \o <<0, 0, 0, 0>> \o data

\* AMF: a key or string with its 2-byte length; a Number; a Boolean
AmfStr(str) == <<Len(str) \div 256, Len(str) % 256>> \o str

AmfNumber(bytes) == <<0>> \o bytes

AmfBoolean(b) == <<1, b>>

\* 12.5, 1280.0 and 720.0 as IEEE-754 doubles, big-endian
Double12p5 == <<64, 41, 0, 0, 0, 0, 0, 0>>

Double1280 == <<64, 148, 0, 0, 0, 0, 0, 0>>

Double720 == <<64, 134, 128, 0, 0, 0, 0, 0>>

\* "encoder", a key outside the allow-list, and its value "Lavf"
KeyEncoder == <<101, 110, 99, 111, 100, 101, 114>>

StrLavf == <<76, 97, 118, 102>>

\* script tag data: the string onMetaData, then an ECMA array said to hold
\* count elements, then the end marker
ScriptData(count, elems) ==
    <<2>> \o AmfStr(OnMetaData) \o <<8>> \o U32(count) \o elems \o <<0, 0, 9>>

FixtureElems ==
    AmfStr(KeyDuration) \o AmfNumber(Double12p5)
        \o AmfStr(KeyWidth) \o AmfNumber(Double1280)
        \o AmfStr(KeyHeight) \o AmfNumber(Double720)
        \o AmfStr(KeyStereo) \o AmfBoolean(1)

\* {duration: 12.5, width: 1280, height: 720, stereo: true}
ScriptFixture == FlvTagBytes(18, 0, ScriptData(4, FixtureElems))

\* {encoder: "Lavf", width: 1280, stereo: true}
ScriptEncoder ==
    FlvTagBytes(18, 0,
        ScriptData(3, AmfStr(KeyEncoder) \o <<2>> \o AmfStr(StrLavf)
                          \o AmfStr(KeyWidth) \o AmfNumber(Double1280)
                          \o AmfStr(KeyStereo) \o AmfBoolean(1)))

\* an array said to hold 3 elements that holds one
ScriptOverCount ==
    FlvTagBytes(18, 0, ScriptData(3, AmfStr(KeyStereo) \o AmfBoolean(0)))

\* {stereo: "Lavf", width: 1280}: an allow-listed key with a String value
ScriptStereoString ==
    FlvTagBytes(18, 0,
        ScriptData(2, AmfStr(KeyStereo) \o <<2>> \o AmfStr(StrLavf)
                          \o AmfStr(KeyWidth) \o AmfNumber(Double1280)))

AudioTag2 == FlvTagBytes(8, 0, <<175, 1>>)

VideoTag3 == FlvTagBytes(9, 40, <<23, 1, 2>>)

OtherTag2 == FlvTagBytes(5, 0, <<1, 2>>)

\* an audio tag with no data
AudioTag0 == FlvTagBytes(8, 0, <<>>)

FlvTagKinds ==
    {ScriptFixture, ScriptEncoder, ScriptOverCount, AudioTag2, VideoTag3,
     OtherTag2, AudioTag0, ScriptStereoString}

\* "FLV", version 1, audio and video, header size; the second with four more
\* header bytes
FlvHeader9 == <<70, 76, 86, 1, 5, 0, 0, 0, 9>>

FlvHeader13 == <<70, 76, 86, 1, 5, 0, 0, 0, 13, 0, 0, 0, 0>>

\* a 13-byte header whose four extension bytes are not all zero
FlvHeader13x == <<70, 76, 86, 1, 5, 0, 0, 0, 13, 0, 1, 0, 0>>

\* previous-tag-size and tag, for each tag, after a previous-tag-size of prev
RECURSIVE FlvBody(_, _)
FlvBody(ts, prev) ==
    IF ts = <<>> THEN U32(prev)
    ELSE U32(prev) \o Head(ts) \o FlvBody(Tail(ts), Len(Head(ts)))

\* streams of up to MaxFlvTags tags
MaxFlvTags == 3

FlvStreams ==
    {hd \o FlvBody(ts, 0) :
        hd \in {FlvHeader9, FlvHeader13, FlvHeader13x},
        ts \in UNION {[1..k -> FlvTagKinds] : k \in 0..MaxFlvTags}}

InitFLV ==
    /\ HIdle
    /\ AIdle
    /\ UIdle
    /\ DIdle
    /\ \E data \in FlvStreams, junk \in Indeterminate :
           FInitWith(FileOf(data), junk)

NextFLV == FlvHeader \/ FlvTag \/ FlvFinish

SpecFLV == InitFLV /\ [][NextFLV]_vars


-----------------------------------------------------------------------------
(* RTP: simplest_udp_parser                                                *)

\* sizeof(RTP_FIXED_HEADER)
RtpHeaderSize == 12

\* the step of the MPEG-TS loop, i = i + 188
TsPacketSize == 188

\* rtp_header.payload: the low 7 bits of byte 1
RtpPayload(h) == h[2] % 128

\* the sync test of the MPEG-TS loop passed for every byte
IsSyncByteAlways(c) == TRUE

\* rtp_data[i] != 0x47 is false
IsSyncByte(c) == c = 71

\* for(i = 0; i < rtp_data_size; i = i + 188): the number of [MPEGTS Pkt]
\* rows printed, from index i on
RECURSIVE TsRows(_, _, _)
TsRows(rtp_data, i, rtp_data_size) ==
    IF i >= rtp_data_size THEN 0
    ELSE IF ~IsSyncByte(rtp_data[i + 1]) THEN 0
    ELSE 1 + TsRows(rtp_data, i + TsPacketSize, rtp_data_size)

\* datagrams handled in a run
MaxUdpPkts == 3

\* socket() and bind(): either fails and the function returns -1
UdpOpen ==
    /\ upc = "start"
    /\ \E ok \in BOOLEAN : upc' = IF ok THEN "listening" ELSE "failed"
    /\ UNCHANGED <<recvData, pktcnt, fp1, pkts>>
    /\ UNCHANGED <<hvars, avars, fvars, dvars>>

\* one pass of while(1) in which recvfrom returns pktsize > 0 and stores the
\* datagram d.  junk is what recvData holds where nothing was stored yet.  A
\* negative rtp_data_size makes fwrite read far beyond recvData: the process
\* is killed, or bytes that are no payload reach the dump.
UdpDatagram(d, junk, killed) ==
    \E buf \in {Memcpy(recvData, d)} :
    \E rtp_header \in {Pad(SubSeq(buf, 1, Min({Len(buf), RtpHeaderSize})),
                           RtpHeaderSize, junk)} :
    \E rtp_data_size \in {Len(d) - RtpHeaderSize} :
    \E rtp_data \in {SubSeq(buf, RtpHeaderSize + 1, Len(d))} :
    \E nts \in {IF RtpPayload(rtp_header) = 33
                THEN TsRows(rtp_data, 0, rtp_data_size) ELSE 0} :
        /\ recvData' = buf
        /\ pkts' = Append(pkts,
               [cnt |-> pktcnt, pktsize |-> Len(d),
                payload |-> RtpPayload(rtp_header),
                timestamp |-> SubSeq(rtp_header, 5, 8),
                seq_no |-> rtp_header[3] * 256 + rtp_header[4],
                rtp_data_size |-> rtp_data_size,
                written |-> IF rtp_data_size < 0 THEN <<>> ELSE rtp_data,
                ts |-> IF rtp_data_size < 0 /\ killed THEN 0 ELSE nts,
                datagram |-> d])
        /\ IF rtp_data_size < 0
           THEN IF killed
                THEN /\ upc' = "crashed"
                     /\ UNCHANGED <<fp1, pktcnt>>
                ELSE /\ fp1' = [fp1 EXCEPT !.overrun = TRUE]
                     /\ pktcnt' = pktcnt + 1
                     /\ upc' = upc
           ELSE /\ fp1' = [fp1 EXCEPT !.data = @ \o rtp_data]
                /\ pktcnt' = pktcnt + 1
                /\ upc' = upc

\* a 12-byte RTP header: version 2, the payload type, sequence number 1,
\* timestamp 90000, ssrc 1
RtpHeaderOf(payload) ==
    <<128, payload, 0, 1, 0, 1, 95, 144, 0, 0, 0, 1>>

\* a 188-byte chunk that begins with c
Chunk188(c) == <<c>> \o [i \in 1..(TsPacketSize - 1) |-> 255]

\* the datagrams received: 200 bytes with one MPEG-TS packet; the same with
\* a payload that does not begin with 0x47, and that followed by a packet;
\* two packets; a packet and a
\* chunk without the sync byte; a packet and one more byte 0x47; a payload
\* of the one byte 0x47; a header alone; a packet under payload type 96;
\* 11 bytes; 1 byte
Datagrams ==
    {RtpHeaderOf(33) \o Chunk188(71),
     RtpHeaderOf(33) \o Chunk188(0),
     RtpHeaderOf(33) \o Chunk188(0) \o Chunk188(71),
     RtpHeaderOf(33) \o Chunk188(71) \o Chunk188(71),
     RtpHeaderOf(33) \o Chunk188(71) \o Chunk188(0),
     RtpHeaderOf(33) \o Chunk188(71) \o <<71>>,
     RtpHeaderOf(33) \o <<71>>,
     RtpHeaderOf(33),
     RtpHeaderOf(96) \o Chunk188(71),
     SubSeq(RtpHeaderOf(33), 1, 11),
     <<128>>}

\* one pass of while(1): recvfrom, and for pktsize > 0 the RTP and MPEG-TS
\* parsing and cnt++; a pktsize of 0 or -1 is passed over
UdpRecv ==
    /\ upc = "listening"
    /\ pktcnt < MaxUdpPkts
    /\ \/ \E d \in Datagrams, junk \in Indeterminate, killed \in BOOLEAN :
              UdpDatagram(d, junk, killed)
       \/ /\ \E pktsize \in {0, -1} : pktsize <= 0
          /\ UNCHANGED <<recvData, pktcnt, fp1, upc, pkts>>
    /\ UNCHANGED <<hvars, avars, fvars, dvars>>

\* simplest_udp_parser entered: fp1 opened, cnt = 0, recvData not initialized
InitUDP ==
    /\ HIdle
    /\ AIdle
    /\ FIdle
    /\ DIdle
    /\ recvData = <<>>
    /\ pktcnt = 0
    /\ fp1 = [data |-> <<>>, overrun |-> FALSE]
    /\ upc = "start"
    /\ pkts = <<>>

NextUDP == UdpOpen \/ UdpRecv

SpecUDP == InitUDP /\ [][NextUDP]_vars

-----------------------------------------------------------------------------
(* dispatch_queue                                                          *)

\* worker threads a queue is constructed with, and operations dispatched
\* to it, in a run
MaxThreads == 2

MaxDispatch == 2

\* the thread that constructs the queue, dispatches to it and destroys it;
\* worker i of threads_ is thread i
MainThread == 0

\* std::mutex lock_
Unlocked == [locked |-> FALSE, owner |-> 0]

LockedBy(t) == [locked |-> TRUE, owner |-> t]

\* lock.unlock() by the holder t
UnlockHeld(t) == LockedBy(t)

Unlock(t) == Unlocked

\* the workers blocked in cv_.wait
Waiting(th) == {w \in DOMAIN th : th[w] = "waiting"}

\* cv_.notify_one(): one of the blocked workers is unblocked, if there is one
NotifyOneLost(th) == {th}

NotifyOne(th) ==
    IF Waiting(th) = {} THEN {th}
    ELSE {[th EXCEPT ![w] = "woken"] : w \in Waiting(th)}

\* cv_.notify_all(): every blocked worker is unblocked
NotifyAllLost(th) == th

NotifyAll(th) ==
    [w \in DOMAIN th |-> IF th[w] = "waiting" THEN "woken" ELSE th[w]]

\* q_.front()
FrontIsBack(q) == q[Len(q)]

Front(q) == Head(q)

\* q_.pop()
Pop(q) == Tail(q)

\* dispatch_queue q(name, thread_cnt): threads_(thread_cnt) holds thread_cnt
\* threads not yet started
DInitWith(thread_cnt) ==
    /\ lock_ = Unlocked
    /\ q_ = <<>>
    /\ quit_ = FALSE
    /\ threads_ = [w \in 1..thread_cnt |-> "unborn"]
    /\ op = [w \in 1..thread_cnt |-> 0]
    /\ mpc = [at |-> "ctor", i |-> 0, cnt |-> 0]
    /\ popped = <<>>
    /\ runs = [k \in 1..MaxDispatch |->
                  [calls |-> 0, rets |-> 0]]
    /\ woke = [one |-> 0, all |-> 0]

\* the constructor's loop: threads_[i] = std::thread(handler, this)
Ctor ==
    /\ mpc.at = "ctor"
    /\ threads_' = [threads_ EXCEPT ![mpc.i + 1] = "lock0"]
    /\ mpc' = [mpc EXCEPT !.i = @ + 1,
                          !.at = IF mpc.i + 1 < Len(threads_) THEN "ctor"
                                 ELSE "main"]
    /\ UNCHANGED <<lock_, q_, quit_, op, popped, runs, woke>>
    /\ UNCHANGED <<hvars, avars, fvars, uvars>>

\* dispatch(op): std::unique_lock<std::mutex> lock(lock_)
DispatchLock ==
    /\ mpc.at = "main"
    /\ mpc.cnt < MaxDispatch
    /\ ~lock_.locked
    /\ lock_' = LockedBy(MainThread)
    /\ mpc' = [mpc EXCEPT !.at = "push"]
    /\ UNCHANGED <<q_, quit_, threads_, op, popped, runs, woke>>
    /\ UNCHANGED <<hvars, avars, fvars, uvars>>

\* dispatch(op): q_.push(op), cv_.notify_one(), and the lock released on
\* return.  The operations are numbered in the order of the calls.
DispatchPush ==
    /\ mpc.at = "push"
    /\ q_' = Append(q_, mpc.cnt + 1)
    /\ \E th \in NotifyOne(threads_) :
           /\ threads_' = th
           /\ woke' = IF th # threads_
                      THEN [woke EXCEPT !.one = mpc.cnt + 1] ELSE woke
    /\ lock_' = Unlocked
    /\ mpc' = [mpc EXCEPT !.at = "main", !.cnt = @ + 1]
    /\ UNCHANGED <<quit_, op, popped, runs>>
    /\ UNCHANGED <<hvars, avars, fvars, uvars>>

\* ~dispatch_queue(): std::unique_lock<std::mutex> lock(lock_)
DtorLock ==
    /\ mpc.at = "main"
    /\ ~lock_.locked
    /\ lock_' = LockedBy(MainThread)
    /\ mpc' = [mpc EXCEPT !.at = "quit"]
    /\ UNCHANGED <<q_, quit_, threads_, op, popped, runs, woke>>
    /\ UNCHANGED <<hvars, avars, fvars, uvars>>

\* ~dispatch_queue(): quit_ = true, cv_.notify_all(), lock.unlock()
DtorQuit ==
    /\ mpc.at = "quit"
    /\ quit_' = TRUE
    /\ threads_' = NotifyAll(threads_)
    /\ woke' = [woke EXCEPT !.all = Cardinality(Waiting(threads_))]
    /\ lock_' = Unlock(MainThread)
    /\ mpc' = [mpc EXCEPT !.at = "join", !.i = 0]
    /\ UNCHANGED <<q_, op, popped, runs>>
    /\ UNCHANGED <<hvars, avars, fvars, uvars>>

\* ~dispatch_queue(): threads_[i].join() returns when worker i has left
\* dispatch_thread_handler
DtorJoin ==
    /\ mpc.at = "join"
    /\ threads_[mpc.i + 1] = "done"
    /\ mpc' = [mpc EXCEPT !.i = @ + 1,
                          !.at = IF mpc.i + 1 < Len(threads_) THEN "join"
                                 ELSE "done"]
    /\ UNCHANGED <<lock_, q_, quit_, threads_, op, popped, runs, woke>>
    /\ UNCHANGED <<hvars, avars, fvars, uvars>>

\* worker w takes the mutex: on entry to dispatch_thread_handler, when its
\* wait was ended, and in lock.lock() after the operation, where the block
\* that holds the local op is left
WorkerLock(w) ==
    /\ threads_[w] \in {"lock0", "woken", "relock"}
    /\ ~lock_.locked
    /\ lock_' = LockedBy(w)
    /\ threads_' = [threads_ EXCEPT
                       ![w] = IF threads_[w] = "relock" THEN "while"
                              ELSE "pred"]
    /\ op' = [op EXCEPT ![w] = 0]
    /\ UNCHANGED <<q_, quit_, mpc, popped, runs, woke>>
    /\ UNCHANGED <<hvars, avars, fvars, uvars>>

\* worker w, holding the mutex, in cv_.wait(lock, pred): with the predicate
\* false it releases the mutex and blocks; with it true the wait returns
\* and if(!quit_ && q_.size()) either moves the front operation out of the
\* queue and unlocks, or falls through to while(!quit_)
WorkerWait(w) ==
    /\ threads_[w] = "pred"
    /\ IF ~(Len(q_) > 0 \/ quit_)
       THEN /\ threads_' = [threads_ EXCEPT ![w] = "waiting"]
            /\ lock_' = Unlocked
            /\ UNCHANGED <<q_, op, popped>>
       ELSE IF ~quit_ /\ Len(q_) > 0
       THEN /\ op' = [op EXCEPT ![w] = Front(q_)]
            /\ q_' = Pop(q_)
            /\ popped' = Append(popped, Front(q_))
            /\ lock_' = Unlock(w)
            /\ threads_' = [threads_ EXCEPT ![w] = "call"]
       ELSE /\ threads_' = [threads_ EXCEPT ![w] = "while"]
            /\ UNCHANGED <<lock_, q_, op, popped>>
    /\ UNCHANGED <<quit_, mpc, runs, woke>>
    /\ UNCHANGED <<hvars, avars, fvars, uvars>>

\* a blocked worker is unblocked with no notification
WorkerSpurious(w) ==
    /\ threads_[w] = "waiting"
    /\ threads_' = [threads_ EXCEPT ![w] = "woken"]
    /\ UNCHANGED <<lock_, q_, quit_, op, mpc, popped, runs, woke>>
    /\ UNCHANGED <<hvars, avars, fvars, uvars>>

\* op() is entered
WorkerCall(w) ==
    /\ threads_[w] = "call"
    /\ threads_' = [threads_ EXCEPT ![w] = "running"]
    /\ runs' = [runs EXCEPT ![op[w]].calls = @ + 1]
    /\ UNCHANGED <<lock_, q_, quit_, op, mpc, popped, woke>>
    /\ UNCHANGED <<hvars, avars, fvars, uvars>>

\* op() returns
WorkerReturn(w) ==
    /\ threads_[w] = "running"
    /\ threads_' = [threads_ EXCEPT ![w] = "relock"]
    /\ runs' = [runs EXCEPT ![op[w]].rets = @ + 1]
    /\ UNCHANGED <<lock_, q_, quit_, op, mpc, popped, woke>>
    /\ UNCHANGED <<hvars, avars, fvars, uvars>>

\* while(!quit_), the mutex held: the loop is repeated, or the handler
\* returns and the unique_lock releases the mutex
WorkerWhile(w) ==
    /\ threads_[w] = "while"
    /\ IF quit_
       THEN /\ threads_' = [threads_ EXCEPT ![w] = "done"]
            /\ lock_' = Unlocked
       ELSE /\ threads_' = [threads_ EXCEPT ![w] = "pred"]
            /\ UNCHANGED lock_
    /\ UNCHANGED <<q_, quit_, op, mpc, popped, runs, woke>>
    /\ UNCHANGED <<hvars, avars, fvars, uvars>>

\* a step of worker w other than a spurious end of its wait
Worker(w) ==
    \/ WorkerLock(w)
    \/ WorkerWait(w)
    \/ WorkerCall(w)
    \/ WorkerReturn(w)
    \/ WorkerWhile(w)

InitDQ ==
    /\ HIdle
    /\ AIdle
    /\ FIdle
    /\ UIdle
    /\ \E thread_cnt \in 1..MaxThreads : DInitWith(thread_cnt)

NextDQ ==
    \/ Ctor
    \/ DispatchLock
    \/ DispatchPush
    \/ DtorLock
    \/ DtorQuit
    \/ DtorJoin
    \/ \E w \in DOMAIN threads_ : WorkerLock(w)
    \/ \E w \in DOMAIN threads_ : WorkerWait(w)
    \/ \E w \in DOMAIN threads_ : WorkerCall(w)
    \/ \E w \in DOMAIN threads_ : WorkerReturn(w)
    \/ \E w \in DOMAIN threads_ : WorkerWhile(w)
    \/ \E w \in DOMAIN threads_ : WorkerSpurious(w)

SpecDQ == InitDQ /\ [][NextDQ]_vars

\* the scheduler lets every thread that can run make its step: a worker
\* that can go on does, and a call of the owning thread that was begun is
\* completed.  When the owning thread makes its next call, and whether a
\* wait ends spuriously, is left open.
FairDQ ==
    /\ \A w \in 1..MaxThreads : WF_vars(w \in DOMAIN threads_ /\ Worker(w))
    /\ WF_vars(Ctor \/ DispatchPush \/ DtorQuit \/ DtorJoin)

SpecDQLive == InitDQ /\ [][NextDQ]_vars /\ FairDQ

-----------------------------------------------------------------------------
(* FLV: properties                                                         *)

\* the input file
dataFlv == FileData(ifh.file)

\* the header size the FLV header declares: bytes 5..8, big-endian
FlvHeaderSize ==
    dataFlv[6] * 16777216 + dataFlv[7] * 65536 + dataFlv[8] * 256 + dataFlv[9]

\* the tags of a well-formed stream, from the tag header at offset T on: each
\* is an 11-byte header and data_size bytes of data, and a 4-byte
\* previous-tag-size follows
RECURSIVE FlvLayout(_, _)
FlvLayout(data, T) ==
    IF T + 11 > Len(data) THEN <<>>
    ELSE LET dsz == data[T + 2] * 65536 + data[T + 3] * 256 + data[T + 4]
         IN  <<[at |-> T, type |-> data[T + 1], datasize |-> dsz,
                timestamp |-> data[T + 5] * 65536 + data[T + 6] * 256
                                 + data[T + 7]]>>
                 \o FlvLayout(data, T + 11 + dsz + 4)

FlvStreamTags == FlvLayout(dataFlv, FlvHeaderSize + 4)

\* a stream with a 9-byte header and at least one tag, all audio or video
FlvAudioVideoOnly ==
    /\ FlvHeaderSize = 9
    /\ FlvStreamTags # <<>>
    /\ \A i \in 1..Len(FlvStreamTags) : FlvStreamTags[i].type \in {8, 9}

\* C14: for a well-formed stream of N tags the demuxer emits exactly N tag
\* records, the i-th with the type, data_size and timestamp of the i-th tag,
\* and processes no tag header twice.  Stated for streams of audio and video
\* tags behind a 9-byte header: every record printed is the record of the
\* tag at its place in the stream, made from a header read at that tag's
\* offset, and when the demuxer has finished there are N of them.
FlvOneRecordPerTag ==
    FlvAudioVideoOnly =>
        /\ \A i \in 1..Len(tags) :
               /\ i <= Len(FlvStreamTags)
               /\ tags[i].at = FlvStreamTags[i].at
               /\ tags[i].got >= 11
               /\ tags[i].type = FlvStreamTags[i].type
               /\ tags[i].datasize = FlvStreamTags[i].datasize
               /\ tags[i].timestamp = FlvStreamTags[i].timestamp
        /\ fpc = "done" => Len(tags) = Len(FlvStreamTags)

\* the number of tag-data bytes the rows put to the video output
RECURSIVE VideoEmitted(_)
VideoEmitted(rows) ==
    IF rows = <<>> THEN 0
    ELSE Len(Head(rows).vsrc) + VideoEmitted(Tail(rows))

\* the sum of the data_size fields of the video tags of a stream
RECURSIVE VideoDeclared(_)
VideoDeclared(ts) ==
    IF ts = <<>> THEN 0
    ELSE (IF Head(ts).type = 9 THEN Head(ts).datasize ELSE 0)
             + VideoDeclared(Tail(ts))

\* the file offset o holds a byte of the data of a video tag
InVideoData(o) ==
    \E k \in 1..Len(FlvStreamTags) :
        /\ FlvStreamTags[k].type = 9
        /\ o >= FlvStreamTags[k].at + 11
        /\ o < FlvStreamTags[k].at + 11 + FlvStreamTags[k].datasize

\* C15: over a whole stream the number of video tag-data bytes put to the
\* video output is the sum of the data_size fields of the video tags, and
\* every such byte is a byte of some video tag's data.  Stated for streams
\* of audio and video tags behind a 9-byte header.
FlvVideoBytes ==
    FlvAudioVideoOnly =>
        /\ \A i \in 1..Len(tags) : \A j \in 1..Len(tags[i].vsrc) :
               InVideoData(tags[i].vsrc[j])
        /\ fpc = "done" => VideoEmitted(tags) = VideoDeclared(FlvStreamTags)

\* row i was made from the header of a tag of the stream, read whole at the
\* tag's offset
IsStreamTag(i) ==
    /\ tags[i].got >= 11
    /\ tags[i].processed
    /\ \E k \in 1..Len(FlvStreamTags) :
           /\ FlvStreamTags[k].at = tags[i].at
           /\ FlvStreamTags[k].type = tags[i].type
           /\ FlvStreamTags[k].datasize = tags[i].datasize

\* C16: after a script tag whose header begins at offset T is processed, the
\* read position is T + 11 + data_size, for any header size, any place of
\* the tag in the stream and any AMF contents.
FlvScriptResync ==
    \A i \in 1..Len(tags) :
        (IsStreamTag(i) /\ tags[i].type = 18) =>
            tags[i].after = tags[i].at + 11 + tags[i].datasize

\* C17: a tag whose type is none of 8, 9, 18 is skipped: the next
\* previous-tag-size is read from T + 11 + data_size.
FlvUnknownTagSkipped ==
    \A i \in 1..Len(tags) :
        (IsStreamTag(i) /\ tags[i].type \notin {8, 9, 18}) =>
            tags[i].after = tags[i].at + 11 + tags[i].datasize

\* C18: while decoding a script tag the demuxer never decodes a key or value
\* from bytes beyond the tag's declared data: no read of the script case
\* fetches a byte at or after T + 11 + data_size.
FlvScriptWithinData ==
    \A i \in 1..Len(tags) :
        (IsStreamTag(i) /\ tags[i].type = 18) =>
            tags[i].hi <= tags[i].at + 11 + tags[i].datasize

\* the 2-byte big-endian number at file offset o
U16At(o) == dataFlv[o + 1] * 256 + dataFlv[o + 2]

\* the bytes of the tag row i was made from
TagBytesOf(i) ==
    SubSeq(dataFlv, tags[i].at + 1, tags[i].at + 11 + tags[i].datasize)

\* the array element at offset o is a key outside the allow-list with a
\* String value, and lies in the file
UnknownStringAt(o) ==
    /\ o + 2 <= Len(dataFlv)
    /\ o + 2 + U16At(o) + 3 <= Len(dataFlv)
    /\ CStr(SubSeq(dataFlv, o + 3, o + 2 + U16At(o))) \notin AllowList
    /\ dataFlv[o + 2 + U16At(o) + 1] = 2
    /\ o + 2 + U16At(o) + 3 + U16At(o + 2 + U16At(o) + 1) <= Len(dataFlv)

\* 1280 = 5 * 2^8
Is1280(v) == v.exact /\ v.neg = 0 /\ v.d = [m |-> 5, e |-> 8]

\* C19: a key outside the allow-list whose value is an AMF String is skipped
\* by consuming exactly 2 + key_length + 1 + 2 + string_length bytes, and
\* the allow-listed keys after it are decoded with their own values: in
\* {encoder: "Lavf", width: 1280, stereo: true}, width is 1280 and stereo is
\* true.
FlvUnknownStringSkipped ==
    \A i \in 1..Len(tags) :
        (IsStreamTag(i) /\ tags[i].type = 18) =>
            /\ \A j \in 1..Len(tags[i].meta) :
                   LET e == tags[i].meta[j]
                   IN  UnknownStringAt(e.at) =>
                           e.after = e.at + 2 + U16At(e.at) + 1 + 2
                                         + U16At(e.at + 2 + U16At(e.at) + 1)
            /\ TagBytesOf(i) = ScriptEncoder =>
                   /\ Len(tags[i].meta) = 3
                   /\ tags[i].meta[1].key = KeyEncoder
                   /\ tags[i].meta[1].label = <<>>
                   /\ tags[i].meta[2].label = KeyWidth
                   /\ Is1280(tags[i].meta[2].number)
                   /\ tags[i].meta[3].label = KeyStereo
                   /\ tags[i].meta[3].boolean

\* a script tag with an unknown String key has been decoded, as the second
\* tag of its stream
FlvUnknownStringSkippedWitness ==
    \E i \in 2..Len(tags) :
        /\ IsStreamTag(i)
        /\ TagBytesOf(i) = ScriptEncoder
        /\ UnknownStringAt(tags[i].meta[1].at)
        /\ tags[i].meta[1].after = tags[i].meta[2].at
        /\ Is1280(tags[i].meta[2].number)

\* the four 16-bit limbs of the 8 bytes at file offset o, most significant
\* first
LimbsAt(o) ==
    <<U16At(o), U16At(o + 2), U16At(o + 4), U16At(o + 6)>>

\* C20: decoding the script tag onMetaData {duration: 12.5, width: 1280,
\* height: 720, stereo: true} reports exactly those values for those keys;
\* each Number is the double whose bit pattern is the big-endian
\* concatenation of its 8 bytes and the Boolean is true iff its byte is not
\* zero.
FlvOnMetaDataFixture ==
    \A i \in 1..Len(tags) :
        (IsStreamTag(i) /\ tags[i].type = 18) =>
            /\ \A j \in 1..Len(tags[i].meta) :
                   LET e == tags[i].meta[j]
                   IN  (e.key \in AllowList /\ e.after <= Len(dataFlv)) =>
                           /\ e.value_type = 0 =>
                                  e.number.limbs = LimbsAt(e.after - 8)
                           /\ e.value_type = 1 =>
                                  e.boolean = (dataFlv[e.after] # 0)
            /\ TagBytesOf(i) = ScriptFixture =>
                   /\ tags[i].name = OnMetaData
                   /\ Len(tags[i].meta) = 4
                   /\ tags[i].meta[1].label = KeyDuration
                   /\ tags[i].meta[1].number.exact
                   /\ tags[i].meta[1].number.neg = 0
                   /\ tags[i].meta[1].number.d = [m |-> 25, e |-> -1]
                   /\ tags[i].meta[2].label = KeyWidth
                   /\ Is1280(tags[i].meta[2].number)
                   /\ tags[i].meta[3].label = KeyHeight
                   /\ tags[i].meta[3].number.exact
                   /\ tags[i].meta[3].number.neg = 0
                   /\ tags[i].meta[3].number.d = [m |-> 45, e |-> 4]
                   /\ tags[i].meta[4].label = KeyStereo
                   /\ tags[i].meta[4].boolean

\* the fixture has been decoded, behind a 13-byte header and after another
\* tag
FlvOnMetaDataFixtureWitness ==
    \E i \in 2..Len(tags) :
        /\ IsStreamTag(i)
        /\ FlvHeaderSize = 13
        /\ TagBytesOf(i) = ScriptFixture
        /\ Len(tags[i].meta) = 4
        /\ tags[i].meta[1].number.limbs = <<16425, 0, 0, 0>>
        /\ tags[i].meta[4].boolean

\* C21: after the file header is read the read position is header_size, the
\* big-endian u32 in bytes 5..8 of the stream, for every header_size >= 9:
\* the first previous-tag-size is read from offset header_size.
FlvSeeksToHeaderSize ==
    FlvHeaderSize >= 9 =>
        /\ (fpc = "loop" /\ tags = <<>>) => ifh.pos = FlvHeaderSize
        /\ tags # <<>> => tags[1].start = FlvHeaderSize

\* pass j of the tag loop began at the offset where the earlier pass i began,
\* got as many header bytes, worked on the same tag header and left the same
\* read position with end-of-file not set: every later pass repeats it
FlvPassRepeats(i, j) ==
    /\ i < j
    /\ tags[i].start = tags[j].start
    /\ tags[i].got = tags[j].got
    /\ tags[i].type = tags[j].type
    /\ tags[i].datasize = tags[j].datasize
    /\ tags[i].after = tags[j].after
    /\ fpc = "loop"

\* C25: the demuxer terminates on every finite stream: once the input is
\* exhausted the tag loop does not repeat forever, whatever the last tag
\* was.  Stated for streams of at least one tag behind a 9-byte header: no
\* pass of the loop repeats an earlier pass.
FlvTagLoopEnds ==
    (FlvHeaderSize = 9 /\ FlvStreamTags # <<>>) =>
        \A i, j \in 1..Len(tags) : ~FlvPassRepeats(i, j)

\* C30: for every audio or video tag one pass of the tag loop consumes
\* exactly 4 + 11 + data_size bytes, also when data_size is 0; for an audio
\* tag the bytes forwarded to the audio output are exactly the data_size - 1
\* bytes that follow the first data byte.
FlvTagConsumption ==
    \A i \in 1..Len(tags) :
        (IsStreamTag(i) /\ tags[i].type \in {8, 9}) =>
            /\ tags[i].start = tags[i].at - 4
            /\ tags[i].after = tags[i].start + 4 + 11 + tags[i].datasize
            /\ tags[i].type = 8 =>
                   tags[i].asrc =
                       [k \in 1..(IF tags[i].datasize > 0
                                  THEN tags[i].datasize - 1 ELSE 0) |->
                            tags[i].at + 11 + k]

\* the encoded length of the key/value pair at file offset o, for a value
\* of type Number (0), Boolean (1) or String (2)
PairValueType(o) == dataFlv[o + 2 + U16At(o) + 1]

PairLength(o) ==
    2 + U16At(o) + 1
      + (IF PairValueType(o) = 0 THEN 8
         ELSE IF PairValueType(o) = 1 THEN 1
         ELSE 2 + U16At(o + 2 + U16At(o) + 1))

\* the pair at offset o lies in the data of the tag of row i, with a Number,
\* Boolean or String value
PairInTag(i, o) ==
    /\ o + 2 <= Len(dataFlv)
    /\ o + 2 + U16At(o) + 1 <= Len(dataFlv)
    /\ PairValueType(o) \in {0, 1, 2}
    /\ PairValueType(o) = 2 => o + 2 + U16At(o) + 3 <= Len(dataFlv)
    /\ o + PairLength(o) <= tags[i].at + 11 + tags[i].datasize

\* C31: for every key/value pair of the onMetaData array whose value is a
\* Number, a Boolean or a String, the decoder consumes exactly the pair's
\* encoded length, whether or not the key is in the allow-list; the next key
\* is read right after the pair.
FlvPairConsumed ==
    \A i \in 1..Len(tags) :
        (IsStreamTag(i) /\ tags[i].type = 18) =>
            \A j \in 1..Len(tags[i].meta) :
                LET e == tags[i].meta[j]
                IN  PairInTag(i, e.at) => e.after = e.at + PairLength(e.at)

\* the rows of the video tags written to the video output, in order
RECURSIVE WrittenVideo(_)
WrittenVideo(i) ==
    IF i > Len(tags) THEN <<>>
    ELSE (IF tags[i].processed /\ tags[i].type = 9 THEN <<tags[i]>> ELSE <<>>)
             \o WrittenVideo(i + 1)

\* the offset in the video output of the previous-tag-size field before the
\* k-th written video tag: the header, then for each earlier tag the 4-byte
\* field, the 11-byte tag header and the tag data
RECURSIVE FieldOffset(_, _)
FieldOffset(w, k) ==
    IF k = 1 THEN DataOffset(flv)
    ELSE FieldOffset(w, k - 1) + 4 + 11 + w[k - 1].datasize

\* the big-endian u32 at offset o of the video output
OutU32(o) ==
    vfh.data[o + 1] * 16777216 + vfh.data[o + 2] * 65536
        + vfh.data[o + 3] * 256 + vfh.data[o + 4]

\* C32: in the video output every previous-tag-size field, read as a
\* big-endian u32, is 0 before the first written video tag and 11 + data_size
\* of the preceding written video tag before every later one.
FlvVideoPreviousTagSize ==
    LET w == WrittenVideo(1)
    IN  \A k \in 1..Len(w) :
            /\ FieldOffset(w, k) + 4 <= Len(vfh.data)
            /\ OutU32(FieldOffset(w, k)) =
                   (IF k = 1 THEN 0 ELSE 11 + w[k - 1].datasize)

\* C28: two runs on the same bytes print the same rows.  For the demuxer:
\* the type, data_size and timestamp of every row are computed from bytes
\* read from the input, i.e. the first row is printed from a tag header of
\* which fread delivered at least the 7 bytes that hold these fields (later
\* rows then reuse bytes that were read).
FlvRowsFromInput ==
    tags # <<>> => tags[1].got >= 7

-----------------------------------------------------------------------------
(* RTP: properties                                                         *)

\* C22: every datagram shorter than 12 bytes is rejected: no RTP header is
\* decoded for it (no [RTP Pkt] row), nothing of it reaches the dump, no
\* TsPacket is emitted, and the computed payload length is never negative.
UdpShortDatagramRejected ==
    /\ \A i \in 1..Len(pkts) :
           /\ pkts[i].pktsize >= 12
           /\ pkts[i].rtp_data_size >= 0
    /\ ~fp1.overrun
    /\ upc # "crashed"

\* the number of consecutive complete 188-byte chunks of payload, from chunk
\* k on, that begin with 0x47
RECURSIVE CompleteTsChunks(_, _)
CompleteTsChunks(payload, k) ==
    IF (k + 1) * 188 > Len(payload) THEN 0
    ELSE IF payload[k * 188 + 1] # 71 THEN 0
    ELSE 1 + CompleteTsChunks(payload, k + 1)

\* the payload of a datagram of at least 12 bytes
PayloadOf(d) == SubSeq(d, 13, Len(d))

\* C23: for a datagram with payload type 33 the number of TsPackets emitted
\* is the number of consecutive complete 188-byte chunks, from payload
\* offset 0, that begin with 0x47 (a shorter trailing chunk is never
\* emitted); for every other payload type it is zero.
UdpTsPacketsAreCompleteChunks ==
    \A i \in 1..Len(pkts) :
        Len(pkts[i].datagram) >= 12 =>
            pkts[i].ts = IF pkts[i].datagram[2] % 128 = 33
                         THEN CompleteTsChunks(PayloadOf(pkts[i].datagram), 0)
                         ELSE 0

\* C24: a 200-byte datagram with payload type 33 whose 188-byte payload
\* begins with 0x47 yields exactly one TsPacket; a payload-type-33 datagram
\* of any length whose payload does not begin with 0x47 yields none.
UdpFixtureOnePacket ==
    \A i \in 1..Len(pkts) :
        LET d == pkts[i].datagram
        IN  (Len(d) > 12 /\ d[2] % 128 = 33) =>
                /\ (Len(d) = 200 /\ d[13] = 71) => pkts[i].ts = 1
                /\ d[13] # 71 => pkts[i].ts = 0

\* both datagrams of the claim have been handled, the second after the first
UdpFixtureOnePacketWitness ==
    \E i, j \in 1..Len(pkts) :
        /\ i < j
        /\ Len(pkts[i].datagram) = 200
        /\ pkts[i].payload = 33
        /\ pkts[i].datagram[13] = 71
        /\ pkts[i].ts = 1
        /\ Len(pkts[j].datagram) > 200
        /\ pkts[j].payload = 33
        /\ pkts[j].datagram[13] # 71
        /\ pkts[j].ts = 0

-----------------------------------------------------------------------------
(* dispatch_queue: properties                                              *)

\* the queue's destructor has been entered
Destroying == mpc.at \in {"quit", "join", "done"}

\* the operations in the queue
Queued == {q_[j] : j \in 1..Len(q_)}

\* the operations moved out of the queue so far
Popped == {popped[j] : j \in 1..Len(popped)}

\* C33: every operation dispatched is executed at most once, by one worker,
\* and only after that worker moved it out of the queue under the lock; the
\* queue is read or modified only by the thread that holds the mutex, and
\* the mutex is not held by a worker while its operation runs.
DispatchedOnce ==
    /\ \A k \in DOMAIN runs : runs[k].calls <= 1
    /\ \A w \in DOMAIN threads_ :
           /\ threads_[w] \in {"call", "running"} =>
                  /\ op[w] \in Popped
                  /\ op[w] \notin Queued
                  /\ lock_ # LockedBy(w)
                  /\ \A v \in DOMAIN threads_ : v # w => op[v] # op[w]
           /\ threads_[w] = "pred" => lock_ = LockedBy(w)
    /\ mpc.at = "push" => lock_ = LockedBy(MainThread)

\* two workers run two different operations at the same time, neither
\* holding the mutex
DispatchedOnceWitness ==
    \E w, v \in DOMAIN threads_ :
        /\ threads_[w] = "running"
        /\ threads_[v] = "running"
        /\ op[w] = 1
        /\ op[v] = 2
        /\ ~lock_.locked

\* C34: every operation dispatched before the destructor starts has been
\* executed when the destructor returns; none is left in the queue.
DtorDrains ==
    mpc.at = "done" =>
        /\ q_ = <<>>
        /\ \A k \in 1..mpc.cnt : runs[k].rets = 1

\* C37: workers move operations out of the queue in the order in which they
\* were dispatched; with a single worker an operation has also returned
\* before a later one is entered.
DispatchFifo ==
    /\ \A i, j \in 1..Len(popped) : i < j => popped[i] < popped[j]
    /\ Len(threads_) = 1 =>
           \A a, b \in DOMAIN runs :
               (a < b /\ runs[b].calls > 0) => runs[a].rets > 0

\* two operations that were in the queue together have both been executed
\* by a single worker, first the one dispatched first
DispatchFifoWitness ==
    /\ Len(threads_) = 1
    /\ woke.one = 1
    /\ popped = <<1, 2>>
    /\ runs[2].rets = 1

\* C35: the destructor always completes: once quit_ is set and the waiters
\* are notified, every worker leaves dispatch_thread_handler and every join
\* returns.
DtorCompletes ==
    quit_ ~> (mpc.at = "done" /\ \A w \in DOMAIN threads_ : threads_[w] = "done")

\* the destructor's notify_all unblocked a worker, every worker has left
\* and the destructor has returned
DtorCompletesWitness ==
    /\ mpc.at = "done"
    /\ woke.all > 0
    /\ \A w \in DOMAIN threads_ : threads_[w] = "done"

\* C36: while the queue is not being destroyed no wake-up is lost: every
\* operation dispatched is in the end moved out of the queue and executed by
\* a worker, unless the destructor is entered first.
NoLostWakeup ==
    \A k \in 1..MaxDispatch :
        (k \in Queued) ~> (runs[k].rets > 0 \/ Destroying)

\* an operation whose dispatch unblocked a worker has been executed, the
\* queue not being destroyed
NoLostWakeupWitness ==
    /\ ~Destroying
    /\ woke.one > 0
    /\ runs[woke.one].rets > 0

=============================================================================
